---- MODULE Spec2Model ----
(***************************************************************************)
(* A model of the async-acme client: the prefetching NoncePool             *)
(* (src/src/acme/nonce.rs), the Directory / Account / Order /              *)
(* Authorization / Challenge orchestration with its JWS request builder    *)
(* (src/async_acme/src/directory.rs, src/async_acme/src/server.rs,         *)
(* src/acme_core/src/dto.rs, src/async_acme/src/crypto/mod.rs), and        *)
(* MemoryPersist (src/async_acme/src/persist.rs).                          *)
(***************************************************************************)
EXTENDS Integers, Sequences, FiniteSets, TLC

VARIABLES
    \* ---- NoncePool (nonce.rs) ----
    poolAlive,      \* the NoncePool handle (the only mpsc Sender) still exists
    receiver,       \* the mpsc channel: queued oneshot senders, by requester
    taskPc,         \* where the background task is in its loop
    nonce_cache,    \* the task's local Option<Result<Header, NoncePoolError>>
    headsServed,    \* Replay-Nonce values the server has issued so far
    headsSent,      \* history: HEAD requests the task has started
    headsFailed,    \* history: HEAD requests that ended in an error
    callers,        \* per requester: position in get_nonce and the oneshot slot
    dispensed,      \* history: every value a oneshot send handed to a requester
    arrivals,       \* history: the requesters in the order their senders were enqueued
    capacity,       \* the bound the mpsc channel was created with
    atDrop,         \* history: the HEAD requests started and the requests queued when
                    \* the NoncePool was dropped
    \* ---- Directory / Account / Order orchestration (directory.rs, server.rs) ----
    state,          \* the type-state parameter of the DirectoryBuilder the caller holds
    builder,        \* its `builder: Option<S>`, S a HyperAcmeServerBuilder
    server,         \* the HyperAcmeServer the builder returned, None before build
    directoryGets,  \* history: GET requests made to the directory endpoint
    issued,         \* Replay-Nonce values the ACME server has issued to new_nonce
    keys,           \* key pairs RingCrypto::private_key has generated
    accounts,       \* the Account values the caller holds
    orders,         \* the Order values the caller holds
    authzs,         \* the Authorization values the caller holds
    pc,             \* the calling task: build, idle, awaiting new_nonce or a POST, panicked
    task,           \* the locals of the operation in progress
    sent,           \* the signed request most recently handed to the server
    last,           \* the operation that returned last and its Result
    usedNonces,     \* history: the nonce of every signed request, in sending order
    certKeys,       \* history: the key pair of every Certificate built by finalize
    \* ---- MemoryPersist (persist.rs) ----
    persist_inner,  \* the HashMap behind Arc<Mutex<Data>>: DataHolder -> Option<Vec<u8>>
    persist_lock,   \* the handle that holds the Mutex, 0 when it is free
    handles,        \* per handle: position in get / put, its arguments and result
    current,        \* history, per DataHolder: the values a map may hold for it, given
                    \* the puts called and returned so far
    window,         \* history, per handle: for a get, the values a map may return
                    \* between its call and now; for a put, the values of the puts
                    \* on its key that returned since its call
    \* ---- conversions (dto.rs, crypto/mod.rs) ----
    origin,         \* the value or JSON text first handed to a conversion
    doc             \* what the conversions made of it so far

poolVars ==
    <<poolAlive, receiver, taskPc, nonce_cache, headsServed, headsSent, headsFailed, callers,
      dispensed, arrivals, capacity, atDrop>>

builderVars == <<state, builder>>

acmeVars == <<builderVars, server, directoryGets, issued, keys, accounts, orders, authzs, pc, task, sent, last, usedNonces, certKeys>>

persistVars == <<persist_inner, persist_lock, handles, current, window>>

conversionVars == <<origin, doc>>

vars == <<poolVars, acmeVars, persistVars, conversionVars>>

\* ------------------------------------------------------------------------
\* Option / Result values
\* ------------------------------------------------------------------------
None == [tag |-> "None", val |-> 0]
Some(v) == [tag |-> "Some", val |-> v]
Ok(v) == [tag |-> "Ok", val |-> v]
Err(e) == [tag |-> "Err", val |-> e]

\* ------------------------------------------------------------------------
\* Byte strings (sequences of ASCII codes), serde_json and base64
\* ------------------------------------------------------------------------
\* the URL_SAFE alphabet of the base64 crate: A-Z a-z 0-9 - _
Base64Char(i) ==
    IF i < 26 THEN 65 + i
    ELSE IF i < 52 THEN 97 + (i - 26)
    ELSE IF i < 62 THEN 48 + (i - 52)
    ELSE IF i = 62 THEN 45
    ELSE 95

\* base64::encode_config(bytes, URL_SAFE_NO_PAD)
Base64UrlNoPad(b) ==
    LET byte(i) == IF i <= Len(b) THEN b[i] ELSE 0
        sextet(k) ==
            LET g == 3 * ((k - 1) \div 4)
                pos == (k - 1) % 4
            IN IF pos = 0 THEN byte(g + 1) \div 4
               ELSE IF pos = 1 THEN (byte(g + 1) % 4) * 16 + byte(g + 2) \div 16
               ELSE IF pos = 2 THEN (byte(g + 2) % 16) * 4 + byte(g + 3) \div 64
               ELSE byte(g + 3) % 64
    IN [k \in 1..((4 * Len(b) + 2) \div 3) |-> Base64Char(sextet(k))]

\* serde_json's compact output of a string without characters to escape
JsonString(s) == <<34>> \o s \o <<34>>

\* serde_json's compact output of a struct or map: fields is a sequence of
\* <<name, serialized value>> in the order the fields were serialized
RECURSIVE JsonFields(_)
JsonFields(fields) ==
    IF Len(fields) = 0 THEN <<>>
    ELSE JsonString(fields[1][1]) \o <<58>> \o fields[1][2]
         \o (IF Len(fields) = 1 THEN <<>> ELSE <<44>> \o JsonFields(Tail(fields)))

JsonObject(fields) == <<123>> \o JsonFields(fields) \o <<125>>

\* serde_json's compact output of a one-element array
JsonArray1(v) == <<91>> \o v \o <<93>>

\* http::Uri::try_from on the strings the model uses: empty strings and strings
\* with a space are rejected
UriTryFromOk(s) == Len(s) > 0 /\ \A i \in 1..Len(s) : s[i] # 32

\* ------------------------------------------------------------------------
\* NoncePool
\* ------------------------------------------------------------------------
NumCallers == 2
Callers == 1..NumCallers

\* mpsc::channel(64)
ChannelCapacity == 64

\* what a HEAD new-nonce can end in besides a Replay-Nonce header
FetchErrors == {"NoNonce", "Hyper"}

InitPool ==
    /\ poolAlive = TRUE
    /\ receiver = <<>>
    /\ taskPc = "loop"
    /\ nonce_cache = None
    /\ headsServed = 0
    /\ headsSent = 0
    /\ headsFailed = 0
    /\ callers = [c \in Callers |-> [pc |-> "idle", slot |-> None]]
    /\ dispensed = <<>>
    /\ arrivals = <<>>
    /\ capacity = ChannelCapacity
    /\ atDrop = None

\* get_nonce is called: the oneshot is created and `self.sender.send(sender)` awaits
\* room in the channel
get_nonce(c) ==
    /\ poolAlive
    /\ callers[c].pc = "idle"
    /\ callers' = [callers EXCEPT ![c].pc = "sending"]
    /\ UNCHANGED <<acmeVars, persistVars, conversionVars, capacity, atDrop, arrivals, headsSent, headsFailed, poolAlive, receiver, taskPc, nonce_cache, headsServed, dispensed>>

\* get_nonce, `self.sender.send(sender).await` completes: the oneshot sender is
\* in the mpsc channel, which had room; a closed channel is BackgroundClosed
get_nonce_send(c) ==
    /\ poolAlive
    /\ callers[c].pc = "sending"
    /\ taskPc = "stopped" \/ Len(receiver) < capacity
    /\ IF taskPc = "stopped"
          THEN /\ callers' = [callers EXCEPT ![c] = [pc |-> "done", slot |-> Some(Err("BackgroundClosed"))]]
               /\ UNCHANGED <<receiver, arrivals>>
          ELSE /\ receiver' = Append(receiver, c)
               /\ arrivals' = Append(arrivals, c)
               /\ callers' = [callers EXCEPT ![c].pc = "waiting"]
    /\ UNCHANGED <<acmeVars, persistVars, conversionVars, capacity, atDrop, headsSent, headsFailed, poolAlive, taskPc, nonce_cache, headsServed, dispensed>>

\* get_nonce, `receiver.await`: the value the task sent, or BackgroundClosed when
\* the oneshot sender was dropped without sending
get_nonce_recv(c) ==
    /\ callers[c].pc \in {"ready", "orphaned"}
    /\ callers' = [callers EXCEPT ![c] =
                      [pc |-> "done",
                       slot |-> IF callers[c].pc = "ready" THEN callers[c].slot
                                ELSE Some(Err("BackgroundClosed"))]]
    /\ UNCHANGED <<acmeVars, persistVars, conversionVars, capacity, atDrop, arrivals, headsSent, headsFailed, poolAlive, receiver, taskPc, nonce_cache, headsServed, dispensed>>

\* the requester drops its get_nonce future: the oneshot receiver is dropped, and a
\* value already sent into the slot is dropped with it
Cancel(c) ==
    /\ callers[c].pc \in {"sending", "waiting", "ready", "orphaned"}
    /\ callers' = [callers EXCEPT ![c] = [pc |-> "cancelled", slot |-> None]]
    /\ UNCHANGED <<acmeVars, persistVars, conversionVars, capacity, atDrop, arrivals, headsSent, headsFailed, poolAlive, receiver, taskPc, nonce_cache, headsServed, dispensed>>

\* the owner drops the NoncePool; get_nonce borrows the pool, so no call is in flight
DropPool ==
    /\ poolAlive
    /\ \A c \in Callers : callers[c].pc \notin {"sending", "waiting", "ready", "orphaned"}
    /\ poolAlive' = FALSE
    /\ atDrop' = Some([heads |-> headsSent, queued |-> Len(receiver)])
    /\ UNCHANGED <<acmeVars, persistVars, conversionVars, capacity, arrivals, headsSent, headsFailed, receiver, taskPc, nonce_cache, headsServed, callers, dispensed>>

\* loop head: keep a cached Ok nonce, otherwise start a HEAD request
Prefetch_always ==
    /\ taskPc = "loop"
    /\ taskPc' = "fetching"
    /\ nonce_cache' = None
    /\ headsSent' = headsSent + 1
    /\ UNCHANGED <<acmeVars, persistVars, conversionVars, capacity, atDrop, arrivals, headsFailed, poolAlive, receiver, headsServed, callers, dispensed>>

\* loop head that keeps whatever the slot holds, an error too
Prefetch_keep_error ==
    /\ taskPc = "loop"
    /\ IF nonce_cache.tag = "Some"
          THEN /\ taskPc' = "recv"
               /\ UNCHANGED <<nonce_cache, headsSent>>
          ELSE /\ taskPc' = "fetching"
               /\ nonce_cache' = None
               /\ headsSent' = headsSent + 1
    /\ UNCHANGED <<acmeVars, persistVars, conversionVars, capacity, atDrop, arrivals, headsFailed, poolAlive, receiver, headsServed, callers, dispensed>>

Prefetch ==
    /\ taskPc = "loop"
    /\ IF nonce_cache.tag = "Some" /\ nonce_cache.val.tag = "Ok"
          THEN /\ taskPc' = "recv"
               /\ UNCHANGED <<nonce_cache, headsSent>>
          ELSE /\ taskPc' = "fetching"
               /\ nonce_cache' = None
               /\ headsSent' = headsSent + 1
    /\ UNCHANGED <<acmeVars, persistVars, conversionVars, capacity, atDrop, arrivals, headsFailed, poolAlive, receiver, headsServed, callers, dispensed>>

\* the get_nonce closure's HEAD completes: the server issues the next nonce, or the
\* response carries none, or the transport fails
FetchDone ==
    /\ taskPc = "fetching"
    /\ \/ /\ nonce_cache' = Some(Ok(headsServed + 1))
          /\ headsServed' = headsServed + 1
          /\ UNCHANGED headsFailed
       \/ /\ \E e \in FetchErrors : nonce_cache' = Some(Err(e))
          /\ headsFailed' = headsFailed + 1
          /\ UNCHANGED headsServed
    /\ taskPc' = "recv"
    /\ UNCHANGED <<acmeVars, persistVars, conversionVars, capacity, atDrop, arrivals, headsSent, poolAlive, receiver, callers, dispensed>>

\* what the cache holds after `sender.send(nonce)`: a failed send hands the value back
CacheAfterSendDrop(nonce, delivered) == None

CacheAfterSendKeep(nonce, delivered) == Some(nonce)

CacheAfterSend(nonce, delivered) == IF delivered THEN None ELSE Some(nonce)

\* receiver.recv() on a channel that is not empty: the oldest message and the rest
mpsc_recv_newest(queue) ==
    [value |-> queue[Len(queue)], rest |-> SubSeq(queue, 1, Len(queue) - 1)]

\* receiver.recv() that leaves the message it returns in the channel
mpsc_recv_peek(queue) == [value |-> Head(queue), rest |-> queue]

mpsc_recv(queue) == [value |-> Head(queue), rest |-> Tail(queue)]

\* receiver.recv() returns a oneshot sender; take the cached value and send it
Serve ==
    /\ taskPc = "recv"
    /\ receiver # <<>>
    /\ LET c == mpsc_recv(receiver).value
           alive == callers[c].pc = "waiting"
       IN /\ receiver' = mpsc_recv(receiver).rest
          /\ IF nonce_cache.tag = "None"
                THEN \* `continue`: the sender is dropped unsent
                     /\ callers' = [callers EXCEPT ![c].pc =
                                       IF alive THEN "orphaned" ELSE callers[c].pc]
                     /\ UNCHANGED <<nonce_cache, dispensed>>
                ELSE /\ nonce_cache' = CacheAfterSend(nonce_cache.val, alive)
                     /\ IF alive
                           THEN /\ callers' = [callers EXCEPT ![c] =
                                                  [pc |-> "ready", slot |-> Some(nonce_cache.val)]]
                                /\ dispensed' = Append(dispensed, [to |-> c, value |-> nonce_cache.val])
                           ELSE UNCHANGED <<callers, dispensed>>
    /\ taskPc' = "loop"
    /\ UNCHANGED <<acmeVars, persistVars, conversionVars, capacity, atDrop, arrivals, headsSent, headsFailed, poolAlive, headsServed>>

\* receiver.recv() that never returns None, as with a Sender kept in the task
Closed_sender_kept ==
    /\ taskPc = "recv"
    /\ receiver = <<>>
    /\ ~poolAlive
    /\ UNCHANGED vars

\* receiver.recv() returns None: every Sender is gone and the channel is empty
Closed ==
    /\ taskPc = "recv"
    /\ receiver = <<>>
    /\ ~poolAlive
    /\ taskPc' = "stopped"
    /\ UNCHANGED <<acmeVars, persistVars, conversionVars, capacity, atDrop, arrivals, headsSent, headsFailed, poolAlive, receiver, nonce_cache, headsServed, callers, dispensed>>

\* the runtime shuts down: the task spawned with tokio::spawn is dropped where it
\* waits, and with it the mpsc Receiver, the oneshot senders still queued and a
\* HEAD in flight
RuntimeShutdown ==
    /\ poolAlive
    /\ taskPc # "stopped"
    /\ taskPc' = "stopped"
    /\ nonce_cache' = None
    /\ receiver' = <<>>
    /\ callers' = [c \in Callers |->
                      IF callers[c].pc = "waiting" THEN [callers[c] EXCEPT !.pc = "orphaned"]
                      ELSE callers[c]]
    /\ UNCHANGED <<acmeVars, persistVars, conversionVars, capacity, atDrop, arrivals, headsSent, headsFailed, poolAlive, headsServed, dispensed>>

\* ------------------------------------------------------------------------
\* Strings of the protocol
\* ------------------------------------------------------------------------
\* RingKeyPair::algorithm: "ES384"
AlgES384 == <<69, 83, 51, 56, 52>>

\* ApiDirectory, as fetched by HyperAcmeServerBuilder::build:
\* "/new-account", "/new-order"
directory ==
    [new_account |-> <<47, 110, 101, 119, 45, 97, 99, 99, 111, 117, 110, 116>>,
     new_order |-> <<47, 110, 101, 119, 45, 111, 114, 100, 101, 114>>]

\* what the caller passes in: the mail "a@b.c", the domains "x.org" and "y.org"
Mails == {<<97, 64, 98, 46, 99>>, <<99, 64, 100, 46, 101>>}
Domains == {<<120, 46, 111, 114, 103>>, <<121, 46, 111, 114, 103>>}

\* what the server answers with: Location values "/acct/<n>", "/order/<n>" and a
\* value that is no URI ("not a uri") or no text; an order's "/fin/1", "/cert/1", "/authz/1",
\* "/authz/2"; a challenge's url "/chall/1"
AccountUri(n) == <<47, 97, 99, 99, 116, 47, 48 + n>>
OrderUri(n) == <<47, 111, 114, 100, 101, 114, 47, 48 + n>>
NotAUri == <<110, 111, 116, 32, 97, 32, 117, 114, 105>>
\* a header value with an octet that is no UTF-8 and no visible ASCII: "/" 0xFF
NotUtf8 == <<47, 255>>
FinalizeUri == <<47, 102, 105, 110, 47, 49>>
CertificateUri == <<47, 99, 101, 114, 116, 47, 49>>
AuthzUris == <<<<47, 97, 117, 116, 104, 122, 47, 49>>, <<47, 97, 117, 116, 104, 122, 47, 50>>>>
ChallengeUrl == <<47, 99, 104, 97, 108, 108, 47, 49>>

\* the i-th Replay-Nonce value of the server: "n" followed by the digit i
NonceStr(i) == <<110, 48 + i>>

\* ------------------------------------------------------------------------
\* RingCrypto (crypto/mod.rs)
\* ------------------------------------------------------------------------
\* the width of RingPublicKey.x and .y
CoordLen == 64

\* RingCrypto::private_key: the k-th key pair the RNG yields, with the public key
\* export_public_key derives from it (x and y are CoordLen base64 characters)
private_key(k) ==
    [id |-> k,
     public_key |-> <<[i \in 1..CoordLen |-> 65 + k], [i \in 1..CoordLen |-> 97 + k]>>]

\* Serialize for RingPublicKey: crv, kty, x, y
SerializeRingPublicKey(pk) ==
    JsonObject(<< <<<<99, 114, 118>>, JsonString(<<80, 45, 51, 56, 52>>)>>,
                  <<<<107, 116, 121>>, JsonString(<<69, 67>>)>>,
                  <<<<120>>, JsonString(pk[1])>>,
                  <<<<121>>, JsonString(pk[2])>> >>)

\* RingCrypto::certificate: the key pair of the certificate is a new private_key()
certificate_account_key(domain, fresh, account_key) ==
    [key_pair |-> account_key, domain |-> domain]

certificate(domain, fresh, account_key) ==
    [key_pair |-> private_key(fresh), domain |-> domain]

\* RingCertificate::csr_der of a certificate made for "x.org" whatever the domain
csr_der_x_org(cert) == <<48>> \o <<120, 46, 111, 114, 103>> \o <<3>> \o SubSeq(cert.key_pair.public_key[1], 1, 3)

\* RingCertificate::csr_der: the DER of a request naming the domain, carrying the
\* public key of the certificate's key pair (a SEQUENCE of the two)
csr_der(cert) == <<48>> \o cert.domain \o <<3>> \o SubSeq(cert.key_pair.public_key[1], 1, 3)

\* RingCrypto::thumbprint: digest(&SHA256, buf), 32 octets that are a function of
\* the octets of buf and of nothing else (a checksum stands for SHA-256)
thumbprint(buf) ==
    LET RECURSIVE mix(_, _)
        mix(lo, hi) ==
            IF lo > hi THEN 0
            ELSE IF lo = hi THEN (buf[lo] * lo) % 65536
            ELSE LET mid == (lo + hi) \div 2
                 IN (mix(lo, mid) + mix(mid + 1, hi)) % 65536
        word == mix(1, Len(buf))
    IN [i \in 1..32 |-> (Len(buf) + (word + i) * (2 * i + 1)) % 256]

\* RingCrypto::sign: the signature of buf under the key pair
crypto_sign(key_pair, buf) == [signer |-> key_pair.id, over |-> buf]

\* the bytes of a Signature (AsRef<[u8]>): they are determined by the key and the
\* bytes signed, and determine both
signature_bytes(sig) == <<sig.signer>> \o sig.over

\* ------------------------------------------------------------------------
\* DTOs (acme_core/src/dto.rs)
\* ------------------------------------------------------------------------
\* Payload::from(payload) for Some(payload), Payload::default() for None
PayloadFromEmptyObject(payload) ==
    IF payload.tag = "Some" THEN [tag |-> "Post", inner |-> payload.val]
    ELSE [tag |-> "Post", inner |-> <<123, 125>>]

PayloadFrom(payload) ==
    IF payload.tag = "Some" THEN [tag |-> "Post", inner |-> payload.val]
    ELSE [tag |-> "Get", inner |-> <<>>]

\* impl Serialize for Payload: the string the `payload` field carries
PayloadSerialize(payload) ==
    IF payload.tag = "Post" THEN payload.inner ELSE <<>>

\* serde_json of ApiAccount::new(mail, true): status, externalAccountBinding and
\* orders are None and skipped
SerializeApiAccount(contact, tos) ==
    JsonObject(<< <<<<99, 111, 110, 116, 97, 99, 116>>, JsonArray1(JsonString(contact))>>,
                  <<<<116, 101, 114, 109, 115, 79, 102, 83, 101, 114, 118, 105, 99, 101,
                      65, 103, 114, 101, 101, 100>>,
                    IF tos THEN <<116, 114, 117, 101>> ELSE <<102, 97, 108, 115, 101>>>> >>)

\* serde_json of ApiNewOrder with one DNS identifier; notBefore and notAfter are None
SerializeApiNewOrder(domain) ==
    JsonObject(<< <<<<105, 100, 101, 110, 116, 105, 102, 105, 101, 114, 115>>,
                    JsonArray1(JsonObject(<< <<<<116, 121, 112, 101>>, JsonString(<<100, 110, 115>>)>>,
                                             <<<<118, 97, 108, 117, 101>>, JsonString(domain)>> >>))>> >>)

\* serde_json of ApiOrderFinalization
SerializeApiOrderFinalization(csr) ==
    JsonObject(<< <<<<99, 115, 114>>, JsonString(csr)>> >>)

\* serde_json of an empty HashMap
SerializeEmptyMap == JsonObject(<<>>)

\* ------------------------------------------------------------------------
\* Directory::protect and Directory::sign (directory.rs)
\* ------------------------------------------------------------------------
\* the `jwk` field of Protected: KID when a kid is passed, JWK of the key pair otherwise
AccountKeyAlwaysJwk(key_pair, kid) == [tag |-> "JWK", val |-> key_pair.public_key]

AccountKey(key_pair, kid) ==
    IF kid.tag = "Some" THEN [tag |-> "KID", val |-> kid.val]
    ELSE [tag |-> "JWK", val |-> key_pair.public_key]

\* Serialize for Protected, with the key before the url
SerializeProtectedKeyFirst(protected) ==
    JsonObject(<< <<<<97, 108, 103>>, JsonString(protected.alg)>>,
                  <<<<110, 111, 110, 99, 101>>, JsonString(protected.nonce)>>,
                  IF protected.jwk.tag = "JWK"
                     THEN <<<<106, 119, 107>>, SerializeRingPublicKey(protected.jwk.val)>>
                     ELSE <<<<107, 105, 100>>, JsonString(protected.jwk.val)>>,
                  <<<<117, 114, 108>>, JsonString(protected.url)>> >>)

\* Serialize for Protected: alg, nonce, url, then jwk or kid
SerializeProtected(protected) ==
    JsonObject(<< <<<<97, 108, 103>>, JsonString(protected.alg)>>,
                  <<<<110, 111, 110, 99, 101>>, JsonString(protected.nonce)>>,
                  <<<<117, 114, 108>>, JsonString(protected.url)>>,
                  IF protected.jwk.tag = "JWK"
                     THEN <<<<106, 119, 107>>, SerializeRingPublicKey(protected.jwk.val)>>
                     ELSE <<<<107, 105, 100>>, JsonString(protected.jwk.val)>> >>)

\* Directory::serialize_and_base64_encode, given serde_json's bytes
serialize_and_base64_encode(json) == Base64UrlNoPad(json)

\* Directory::protect, after new_nonce has returned nonce
protect_keep_nonce(url, key_pair, kid, nonce) ==
    [alg |-> AlgES384,
     nonce |-> IF usedNonces = <<>> THEN nonce ELSE usedNonces[Len(usedNonces)],
     url |-> url, jwk |-> AccountKey(key_pair, kid)]

\* Directory::protect, naming the newAccount url whatever url it is given
protect_new_account_url(url, key_pair, kid, nonce) ==
    [alg |-> AlgES384, nonce |-> nonce, url |-> server.val.directory.new_account,
     jwk |-> AccountKey(key_pair, kid)]

protect(url, key_pair, kid, nonce) ==
    [alg |-> AlgES384, nonce |-> nonce, url |-> url, jwk |-> AccountKey(key_pair, kid)]

\* Directory::sign, the signature field: RingCrypto::sign, then base64
EncodedSignature(key_pair, buf) == Base64UrlNoPad(signature_bytes(crypto_sign(key_pair, buf)))

\* Directory::sign
sign_protected_only(key_pair, protected, payload) ==
    [payload |-> PayloadFrom(payload),
     signature |-> EncodedSignature(key_pair, protected \o <<46>>),
     protected |-> protected]

sign(key_pair, protected, payload) ==
    LET p == PayloadFrom(payload)
        buf == protected \o <<46>> \o (IF p.tag = "Post" THEN p.inner ELSE <<>>)
    IN [payload |-> p, signature |-> EncodedSignature(key_pair, buf), protected |-> protected]

\* ------------------------------------------------------------------------
\* The ACME server as the client sees it: HTTP responses and trait results
\* ------------------------------------------------------------------------
MaxNonces == 5
MaxKeys == 3
MaxAccounts == 1
MaxOrders == 1

\* ApiErrorType values the model's server uses
ApiErrorTypes == {"badNonce", "malformed"}

\* the ApiOrder status and certificate fields the model's server answers with; a
\* valid order carries the finalize URI "/fin/2"
OrderStates ==
    {<<"processing", None>>, <<"processing", Some(CertificateUri)>>,
     <<"valid", Some(CertificateUri)>>}

AccountBodies == {[tag |-> "ApiAccount", val |-> [status |-> "valid"]]}

OrderBodies ==
    {[tag |-> "ApiOrder",
      val |-> [status |-> st[1], authorizations |-> AuthzUris,
               finalize |-> IF st[1] = "valid" THEN <<47, 102, 105, 110, 47, 50>>
                            ELSE FinalizeUri,
               certificate |-> st[2]]] :
        st \in OrderStates}

\* ApiChallenge values: an http-01 challenge, one whose url is no URI, a dns-01 one
HttpChallenge == [type_field |-> "HTTP", url |-> ChallengeUrl, status |-> "pending", token |-> <<116>>]
BadUrlChallenge == [type_field |-> "HTTP", url |-> NotAUri, status |-> "pending", token |-> <<116>>]
DnsChallenge == [type_field |-> "DNS", url |-> ChallengeUrl, status |-> "pending", token |-> <<116>>]

AuthorizationBodies ==
    {[status |-> st, challenges |-> ch] :
        st \in {"pending"},
        ch \in {<<DnsChallenge, HttpChallenge, BadUrlChallenge>>,
                 <<BadUrlChallenge>>,
                 <<DnsChallenge, [DnsChallenge EXCEPT !.type_field = "TLS"]>>}}

ErrorBodies == {[tag |-> "ApiError", val |-> t] : t \in ApiErrorTypes}

\* a problem document with type and detail and no subproblems member
ProblemBodies == {[tag |-> "Problem", val |-> t] : t \in ApiErrorTypes}

Garbage == [tag |-> "Garbage", val |-> 0]

\* the responses to a signed POST: 2xx with or without a Location header (a URI,
\* text that is no URI, octets that are no text) and a body that parses or not;
\* non-2xx with an ApiError body or not, with or without a Location header
HttpResponses(bodies, uri) ==
    {[status |-> 200, location |-> l, body |-> b] :
        l \in {None, Some(uri), Some(NotAUri), Some(NotUtf8)}, b \in bodies \cup {Garbage}}
    \cup {[status |-> 400, location |-> l, body |-> b] :
             l \in {None, Some(NotAUri), Some(NotUtf8)},
             b \in ErrorBodies \cup ProblemBodies \cup {Garbage}}

\* the responses to HEAD new-nonce: 2xx with the server's next nonce, 2xx without
\* the header, non-2xx
HeadResponses ==
    (IF issued < MaxNonces
        THEN {[status |-> 200, replay_nonce |-> Some(NonceStr(issued + 1)), body |-> Garbage]}
        ELSE {})
    \cup {[status |-> 200, replay_nonce |-> None, body |-> Garbage]}
    \cup {[status |-> 400, replay_nonce |-> None, body |-> b] : b \in ErrorBodies}

\* the errors of a DynAcmeServer call whose HyperAcmeServer body is not part of
\* this source tree
TraitErrors == {Err(<<"ApiError", t>>) : t \in ApiErrorTypes}

\* DynAcmeServer::finalize, get_authorization, validate_challenge,
\* download_certificate: Result<T, DynError>
FinalizeResults == {Ok(b.val) : b \in OrderBodies} \cup TraitErrors
AuthorizationResults == {Ok(b) : b \in AuthorizationBodies} \cup TraitErrors
ValidateResults == {Ok(HttpChallenge)} \cup TraitErrors
DownloadResults == {Ok(<<45, 45>>)} \cup TraitErrors

\* ------------------------------------------------------------------------
\* HyperAcmeServer (server.rs)
\* ------------------------------------------------------------------------
IsSuccess(status) == status >= 200 /\ status < 300

\* HyperAcmeServer::handle_if_error; ApiError derives Deserialize with type, detail
\* and subproblems all required, a body without one of them is a serde_json error
handle_if_error(res) ==
    IF IsSuccess(res.status) THEN Ok(<<>>)
    ELSE IF res.body.tag = "ApiError" THEN Err(<<"ApiError", res.body.val>>)
    ELSE Err(<<"Json", "">>)

\* HeaderValue::to_str: Ok when every octet is visible ASCII, a space or a tab
HeaderToStrOk(v) == \A i \in 1..Len(v) : v[i] = 9 \/ (v[i] >= 32 /\ v[i] < 127)

\* HyperAcmeServer::extract_location; InvalidHeader(LOCATION_HEADER, Some(location))
\* carries the header value
extract_location(res) ==
    IF res.location.tag = "None" THEN Ok(None)
    ELSE IF ~HeaderToStrOk(res.location.val)
        THEN Err(<<"InvalidHeader", "Some", res.location.val>>)
    ELSE IF ~UriTryFromOk(res.location.val)
        THEN Err(<<"InvalidHeader", "Some", res.location.val>>)
    ELSE Ok(Some(res.location.val))

\* HyperAcmeServer::post that reads the Location header before the status
post_location_first(res, expect) ==
    LET e == handle_if_error(res)
        l == extract_location(res)
    IN IF l.tag = "Err" THEN l
       ELSE IF e.tag = "Err" THEN e
       ELSE IF res.body.tag # expect THEN Err(<<"Json", "">>)
       ELSE Ok([body |-> res.body.val, location |-> l.val])

\* HyperAcmeServer::post, from the response on; expect is the type R the body is
\* deserialized as
post(res, expect) ==
    LET e == handle_if_error(res)
        l == extract_location(res)
    IN IF e.tag = "Err" THEN e
       ELSE IF l.tag = "Err" THEN l
       ELSE IF res.body.tag # expect THEN Err(<<"Json", "">>)
       ELSE Ok([body |-> res.body.val, location |-> l.val])

\* HyperAcmeServer::new_nonce, from the response on
new_nonce_or_default(res) ==
    LET e == handle_if_error(res)
    IN IF e.tag = "Err" THEN e
       ELSE IF res.replay_nonce.tag = "None" THEN Ok(<<>>)
       ELSE Ok(res.replay_nonce.val)

new_nonce(res) ==
    LET e == handle_if_error(res)
    IN IF e.tag = "Err" THEN e
       ELSE IF res.replay_nonce.tag = "None" THEN Err(<<"Nonce", "None">>)
       ELSE Ok(res.replay_nonce.val)

\* HyperAcmeServer::new_account
new_account_lenient(res) ==
    LET r == post(res, "ApiAccount")
    IN IF r.tag = "Err" THEN r
       ELSE Ok([body |-> r.val.body,
                location |-> IF r.val.location.tag = "None" THEN <<>> ELSE r.val.location.val])

new_account(res) ==
    LET r == post(res, "ApiAccount")
    IN IF r.tag = "Err" THEN r
       ELSE IF r.val.location.tag = "None" THEN Err(<<"InvalidHeader", "None">>)
       ELSE Ok([body |-> r.val.body, location |-> r.val.location.val])

\* HyperAcmeServer::new_order
new_order(res) ==
    LET r == post(res, "ApiOrder")
    IN IF r.tag = "Err" THEN r
       ELSE IF r.val.location.tag = "None" THEN Err(<<"InvalidHeader", "None">>)
       ELSE Ok([body |-> r.val.body, location |-> r.val.location.val])

\* HyperAcmeServer::get_account
get_account(res) ==
    LET r == post(res, "ApiAccount")
    IN IF r.tag = "Err" THEN r ELSE Ok(r.val.body)

\* HyperAcmeServer::get_order
get_order(res) ==
    LET r == post(res, "ApiOrder")
    IN IF r.tag = "Err" THEN r ELSE Ok(r.val.body)

\* ------------------------------------------------------------------------
\* Directory, Account, Order, Authorization, Challenge (directory.rs)
\* ------------------------------------------------------------------------
NoTask ==
    [op |-> "none", target |-> 0, stage |-> 0, url |-> <<>>, key |-> 0, kid |-> None,
     payload |-> None, domain |-> <<>>, acc |-> <<>>, posts |-> 0, before |-> None]

NoRequest ==
    [op |-> "none", target |-> 0, stage |-> 0, url |-> <<>>,
     protected |-> [alg |-> <<>>, nonce |-> <<>>, url |-> <<>>, jwk |-> [tag |-> "none", val |-> <<>>]],
     request |-> [payload |-> [tag |-> "none", inner |-> <<>>],
                  signature |-> <<>>, protected |-> <<>>]]

NoResult == [op |-> "none", target |-> 0, result |-> Ok(0), posts |-> 0]

InitAcme ==
    /\ state = "NeedsServer"
    /\ builder = None
    /\ server = None
    /\ directoryGets = 0
    /\ issued = 0
    /\ keys = 0
    /\ accounts = <<>>
    /\ orders = <<>>
    /\ authzs = <<>>
    /\ pc = "build"
    /\ task = NoTask
    /\ sent = NoRequest
    /\ last = NoResult
    /\ usedNonces = <<>>
    /\ certKeys = <<>>

\* the responses to the GET of the directory endpoint
DirectoryResponses ==
    {[status |-> st, body |-> [tag |-> "ApiDirectory", val |-> directory]] : st \in {200, 500}}
    \cup {[status |-> st, body |-> Garbage] : st \in {200, 404}}

\* server.rs Endpoint, with the urls Endpoint::from is given
Urls == {<<104, 116, 116, 112, 115, 58, 47, 47, 116, 101, 115, 116, 46, 99, 111, 109>>}
Endpoints ==
    {[tag |-> "LetsEncrypt", val |-> <<>>], [tag |-> "LetsEncryptStaging", val |-> <<>>]}
    \cup {[tag |-> "Url", val |-> u] : u \in Urls}

\* HyperAcmeServerBuilder::default, then connector(), url() and le_staging() as
\* the caller chose to call them before handing the builder over
HyperAcmeServerBuilderDefault == [connector |-> None, endpoint |-> [tag |-> "LetsEncrypt", val |-> <<>>]]
HyperAcmeServerBuilders == {[connector |-> c, endpoint |-> e] : c \in {None, Some("connector")}, e \in Endpoints}

\* DirectoryBuilder<NeedsServer>::server
DirectoryBuilder_server(b) ==
    /\ pc = "build" /\ state = "NeedsServer"
    /\ state' = "NeedsEndpoint"
    /\ builder' = Some(b)
    /\ UNCHANGED <<poolVars, persistVars, conversionVars, server, directoryGets, issued, keys, accounts, orders, authzs, pc,
                   task, sent, last, usedNonces, certKeys>>

\* DirectoryBuilder<NeedsServer>::default: a HyperAcmeServerBuilder with an https connector
DirectoryBuilder_default ==
    /\ pc = "build" /\ state = "NeedsServer"
    /\ state' = "NeedsEndpoint"
    /\ builder' = Some([HyperAcmeServerBuilderDefault EXCEPT !.connector = Some("connector")])
    /\ UNCHANGED <<poolVars, persistVars, conversionVars, server, directoryGets, issued, keys, accounts, orders, authzs, pc,
                   task, sent, last, usedNonces, certKeys>>

\* DirectoryBuilder<NeedsEndpoint>::url
DirectoryBuilder_url(url) ==
    /\ pc = "build" /\ state = "NeedsEndpoint"
    /\ state' = "Finished"
    /\ builder' = IF builder.tag = "Some"
                     THEN Some([builder.val EXCEPT !.endpoint = [tag |-> "Url", val |-> url]])
                     ELSE builder
    /\ UNCHANGED <<poolVars, persistVars, conversionVars, server, directoryGets, issued, keys, accounts, orders, authzs, pc,
                   task, sent, last, usedNonces, certKeys>>

\* DirectoryBuilder<NeedsEndpoint>::le_staging
DirectoryBuilder_le_staging ==
    /\ pc = "build" /\ state = "NeedsEndpoint"
    /\ state' = "Finished"
    /\ builder' = IF builder.tag = "Some"
                     THEN Some([builder.val EXCEPT !.endpoint = [tag |-> "LetsEncryptStaging", val |-> <<>>]])
                     ELSE builder
    /\ UNCHANGED <<poolVars, persistVars, conversionVars, server, directoryGets, issued, keys, accounts, orders, authzs, pc,
                   task, sent, last, usedNonces, certKeys>>

\* DirectoryBuilder<NeedsEndpoint, S>::default: the endpoint the server builder came with
DirectoryBuilder_default_endpoint ==
    /\ pc = "build" /\ state = "NeedsEndpoint"
    /\ state' = "Finished"
    /\ UNCHANGED <<poolVars, persistVars, conversionVars, builder, server, directoryGets, issued, keys, accounts, orders, authzs,
                   pc, task, sent, last, usedNonces, certKeys>>

\* build(self) returns result: the DirectoryBuilder is moved into the call and gone
BuildReturn(result) ==
    /\ state' = "Moved"
    /\ builder' = None
    /\ last' = [op |-> "build", target |-> 0, result |-> result, posts |-> 0]

\* HyperAcmeServerBuilder::build on a builder without connector check
HyperAcmeServerBuilder_build_any(b) ==
    /\ directoryGets' = directoryGets + 1
    /\ \E res \in DirectoryResponses :
          IF res.body.tag = "ApiDirectory"
             THEN /\ server' = Some([directory |-> res.body.val])
                  /\ pc' = "idle"
                  /\ state' = "Moved" /\ builder' = None
                  /\ UNCHANGED last
             ELSE /\ pc' = "build_failed"
                  /\ BuildReturn(Err(<<"Json", "">>))
                  /\ UNCHANGED server

\* HyperAcmeServerBuilder::build: the connector is taken, without one the result
\* is NoConnector before any request; else GET the endpoint and deserialize the
\* body as ApiDirectory, whatever the status
HyperAcmeServerBuilder_build(b) ==
    IF b.connector = None
       THEN /\ pc' = "build_failed"
            /\ BuildReturn(Err(<<"NoConnector", "">>))
            /\ UNCHANGED <<server, directoryGets>>
       ELSE /\ directoryGets' = directoryGets + 1
            /\ \E res \in DirectoryResponses :
                  IF res.body.tag = "ApiDirectory"
                     THEN /\ server' = Some([directory |-> res.body.val])
                          /\ pc' = "idle"
                          /\ state' = "Moved" /\ builder' = None
                          /\ UNCHANGED last
                     ELSE /\ pc' = "build_failed"
                          /\ BuildReturn(Err(<<"Json", "">>))
                          /\ UNCHANGED server

\* DirectoryBuilder<Finished, S>::build: `self.builder.unwrap().build().await?`
build ==
    /\ pc = "build" /\ state = "Finished"
    /\ IF builder = None
          THEN /\ pc' = "panicked"
               /\ UNCHANGED <<builderVars, server, directoryGets, last>>
          ELSE HyperAcmeServerBuilder_build(builder.val)
    /\ UNCHANGED <<poolVars, persistVars, conversionVars, issued, keys, accounts, orders, authzs, task, sent,
                   usedNonces, certKeys>>

\* an operation reaches `self.protect(url, key_pair, kid).await`: new_nonce is awaited;
\* `before` keeps the Order that Order::finalize was called on, as it was at the call
Protect(op, target, stage, url, key, kid, payload, domain, acc, posts) ==
    /\ task' = [op |-> op, target |-> target, stage |-> stage, url |-> url, key |-> key,
                kid |-> kid, payload |-> payload, domain |-> domain, acc |-> acc,
                posts |-> posts,
                before |-> IF op # "finalize" THEN None
                           ELSE IF stage = 1 THEN Some(orders[target]) ELSE task.before]
    /\ sent' = NoRequest
    /\ pc' = "nonce"

\* the operation in progress returns result to its caller; the request it had in
\* flight, if any, is gone
Return(result) ==
    /\ last' = [op |-> task.op, target |-> task.target, result |-> result, posts |-> task.posts]
    /\ task' = NoTask
    /\ sent' = NoRequest
    /\ pc' = "returned"

\* the caller has looked at the result and goes on
Resume ==
    /\ pc = "returned"
    /\ pc' = "idle"
    /\ last' = NoResult
    /\ UNCHANGED <<poolVars, persistVars, conversionVars, builderVars, server, directoryGets, issued, keys, accounts, orders, authzs, task, sent, usedNonces, certKeys>>

\* Directory::new_account, to the first await
new_account_begin(mail) ==
    /\ pc = "idle"
    /\ keys < MaxKeys
    /\ Len(accounts) < MaxAccounts
    /\ keys' = keys + 1
    /\ Protect("new_account", 0, 1, server.val.directory.new_account, keys + 1, None,
               Some(serialize_and_base64_encode(
                        SerializeApiAccount(<<109, 97, 105, 108, 116, 111, 58>> \o mail, TRUE))),
               <<>>, <<>>, 0)
    /\ UNCHANGED <<poolVars, persistVars, conversionVars, builderVars, server, directoryGets, issued, accounts, orders, authzs, last, usedNonces, certKeys>>

\* Account::update, to the first await
account_update_begin_other_key(a) ==
    /\ pc = "idle"
    /\ Protect("account_update", a, 1, accounts[a].kid, accounts[a].key_pair + 1,
               Some(accounts[a].kid), None, <<>>, <<>>, 0)
    /\ UNCHANGED <<poolVars, persistVars, conversionVars, builderVars, server, directoryGets, issued, keys, accounts, orders, authzs, last, usedNonces, certKeys>>

account_update_begin(a) ==
    /\ pc = "idle"
    /\ Protect("account_update", a, 1, accounts[a].kid, accounts[a].key_pair,
               Some(accounts[a].kid), None, <<>>, <<>>, 0)
    /\ UNCHANGED <<poolVars, persistVars, conversionVars, builderVars, server, directoryGets, issued, keys, accounts, orders, authzs, last, usedNonces, certKeys>>

\* Account::new_order, to the first await
new_order_begin_refetch(a, domain) ==
    /\ pc = "idle"
    /\ Len(orders) < MaxOrders
    /\ directoryGets' = directoryGets + 1
    /\ Protect("new_order", a, 1, server.val.directory.new_order, accounts[a].key_pair,
               Some(accounts[a].kid),
               Some(serialize_and_base64_encode(SerializeApiNewOrder(domain))),
               domain, <<>>, 0)
    /\ UNCHANGED <<poolVars, persistVars, conversionVars, builderVars, server, issued, keys, accounts, orders, authzs, last, usedNonces, certKeys>>

new_order_begin(a, domain) ==
    /\ pc = "idle"
    /\ Len(orders) < MaxOrders
    /\ Protect("new_order", a, 1, server.val.directory.new_order, accounts[a].key_pair,
               Some(accounts[a].kid),
               Some(serialize_and_base64_encode(SerializeApiNewOrder(domain))),
               domain, <<>>, 0)
    /\ UNCHANGED <<poolVars, persistVars, conversionVars, builderVars, server, directoryGets, issued, keys, accounts, orders, authzs, last, usedNonces, certKeys>>

\* `&mut self` on an Order: the Authorization values that borrow it are gone
EndBorrows(o) == SelectSeq(authzs, LAMBDA z : z.order # o)

\* Order::update, to the first await
order_update_begin(o) ==
    /\ pc = "idle"
    /\ authzs' = EndBorrows(o)
    /\ LET account == accounts[orders[o].account]
       IN Protect("order_update", o, 1, orders[o].location, account.key_pair,
                  Some(account.kid), None, <<>>, <<>>, 0)
    /\ UNCHANGED <<poolVars, persistVars, conversionVars, builderVars, server, directoryGets, issued, keys, accounts, orders, last, usedNonces, certKeys>>

\* Order::finalize, to the first await: the certificate and its CSR are built first
finalize_begin(o) ==
    /\ pc = "idle"
    /\ keys < MaxKeys
    /\ authzs' = EndBorrows(o)
    /\ LET account == accounts[orders[o].account]
           cert == certificate(orders[o].domain, keys + 1, private_key(account.key_pair))
           csr == Base64UrlNoPad(csr_der(cert))
       IN /\ keys' = IF cert.key_pair.id = keys + 1 THEN keys + 1 ELSE keys
          /\ certKeys' = Append(certKeys, [order |-> o, key_pair |-> cert.key_pair.id])
          /\ Protect("finalize", o, 1, orders[o].inner.finalize, account.key_pair,
                     Some(account.kid),
                     Some(serialize_and_base64_encode(SerializeApiOrderFinalization(csr))),
                     orders[o].domain, <<>>, 0)
    /\ UNCHANGED <<poolVars, persistVars, conversionVars, builderVars, server, directoryGets, issued, accounts, orders, last, usedNonces>>

\* Order::authorizations, to the first await (an empty list returns at once)
authorizations_begin(o) ==
    /\ pc = "idle"
    /\ LET account == accounts[orders[o].account]
           uris == orders[o].inner.authorizations
       IN IF Len(uris) = 0
             THEN /\ last' = [op |-> "authorizations", target |-> o, result |-> Ok(0), posts |-> 0]
                  /\ pc' = "returned"
                  /\ UNCHANGED <<task, sent>>
             ELSE /\ Protect("authorizations", o, 1, uris[1], account.key_pair,
                             Some(account.kid), None, <<>>, <<>>, 0)
                  /\ UNCHANGED last
    /\ UNCHANGED <<poolVars, persistVars, conversionVars, builderVars, server, directoryGets, issued, keys, accounts, orders, authzs, usedNonces, certKeys>>

\* Authorization::update, to the first await
authorization_update_begin(z) ==
    /\ pc = "idle"
    /\ LET account == accounts[orders[authzs[z].order].account]
       IN Protect("authorization_update", z, 1, authzs[z].location, account.key_pair,
                  Some(account.kid), None, <<>>, <<>>, 0)
    /\ UNCHANGED <<poolVars, persistVars, conversionVars, builderVars, server, directoryGets, issued, keys, accounts, orders, authzs, last, usedNonces, certKeys>>

\* Authorization::http_challenge with `rfind` for `find`
http_challenge_rfind(authorization) ==
    LET ch == authorization.inner.challenges
        hits == {i \in 1..Len(ch) : ch[i].type_field = "HTTP"}
    IN IF hits = {} THEN 0 ELSE CHOOSE i \in hits : \A j \in hits : i >= j

\* Authorization::http_challenge: the index of the first http-01 challenge, 0 for None
http_challenge(authorization) ==
    LET ch == authorization.inner.challenges
        hits == {i \in 1..Len(ch) : ch[i].type_field = "HTTP"}
    IN IF hits = {} THEN 0 ELSE CHOOSE i \in hits : \A j \in hits : i <= j

\* the payload argument Challenge::validate hands to sign
validate_payload_none == None

validate_payload == Some(serialize_and_base64_encode(SerializeEmptyMap))

\* Challenge::validate on the http-01 challenge of an authorization, to the first
\* await; `Uri::try_from(url).unwrap()` comes first
validate_begin(z) ==
    /\ pc = "idle"
    /\ http_challenge(authzs[z]) # 0
    /\ LET account == accounts[orders[authzs[z].order].account]
           inner == authzs[z].inner.challenges[http_challenge(authzs[z])]
       IN IF ~UriTryFromOk(inner.url)
             THEN /\ pc' = "panicked"
                  /\ task' = [NoTask EXCEPT !.op = "validate", !.target = z]
                  /\ UNCHANGED sent
             ELSE Protect("validate", z, 1, inner.url, account.key_pair, Some(account.kid),
                          validate_payload, <<>>, <<>>, 0)
    /\ UNCHANGED <<poolVars, persistVars, conversionVars, builderVars, server, directoryGets, issued, keys, accounts, orders, authzs, last, usedNonces, certKeys>>

\* Challenge<Http>::proof with the key pair generated last for the account's
proof_last_key(z) ==
    /\ pc = "idle"
    /\ http_challenge(authzs[z]) # 0
    /\ LET inner == authzs[z].inner.challenges[http_challenge(authzs[z])]
           token == inner.token \o <<46>>
           public_key == SerializeRingPublicKey(private_key(keys).public_key)
       IN last' = [op |-> "proof", target |-> z,
                   result |-> Ok(token \o Base64UrlNoPad(thumbprint(public_key))),
                   posts |-> 0]
    /\ pc' = "returned"
    /\ UNCHANGED <<poolVars, persistVars, conversionVars, builderVars, server, directoryGets, issued, keys, accounts, orders, authzs, task, sent, usedNonces, certKeys>>

\* Challenge<Http>::proof on the http-01 challenge of an authorization
proof(z) ==
    /\ pc = "idle"
    /\ http_challenge(authzs[z]) # 0
    /\ LET inner == authzs[z].inner.challenges[http_challenge(authzs[z])]
           token == inner.token \o <<46>>
           account == accounts[orders[authzs[z].order].account]
           public_key == SerializeRingPublicKey(private_key(account.key_pair).public_key)
       IN last' = [op |-> "proof", target |-> z,
                   result |-> Ok(token \o Base64UrlNoPad(thumbprint(public_key))),
                   posts |-> 0]
    /\ pc' = "returned"
    /\ UNCHANGED <<poolVars, persistVars, conversionVars, builderVars, server, directoryGets, issued, keys, accounts, orders, authzs, task, sent, usedNonces, certKeys>>

\* Directory::protect after new_nonce's response, then Directory::sign, then the
\* request is handed to the server; a failed new_nonce makes the operation return
NonceResponse ==
    /\ pc = "nonce"
    /\ \E res \in HeadResponses :
          LET nonce == new_nonce(res)
              key_pair == private_key(task.key)
              protected == protect(task.url, key_pair, task.kid, nonce.val)
              signed == sign(key_pair,
                             serialize_and_base64_encode(SerializeProtected(protected)),
                             task.payload)
          IN /\ issued' = IF res.replay_nonce.tag = "Some" THEN issued + 1 ELSE issued
             /\ IF nonce.tag = "Err"
                   THEN /\ Return(nonce)
                        /\ UNCHANGED usedNonces
                   ELSE /\ sent' = [op |-> task.op, target |-> task.target,
                                    stage |-> task.stage, url |-> task.url,
                                    protected |-> protected, request |-> signed]
                        /\ usedNonces' = Append(usedNonces, protected.nonce)
                        /\ task' = [task EXCEPT !.posts = @ + 1]
                        /\ pc' = "post"
                        /\ UNCHANGED last
    /\ UNCHANGED <<poolVars, persistVars, conversionVars, builderVars, server, directoryGets, keys, accounts, orders, authzs, certKeys>>

\* Directory::new_account, from the response to the newAccount POST on
new_account_response ==
    /\ pc = "post" /\ task.op = "new_account"
    /\ \E res \in HttpResponses(AccountBodies, AccountUri(Len(accounts) + 1)) :
          LET r == new_account(res)
          IN IF r.tag = "Err"
                THEN Return(r) /\ UNCHANGED accounts
                ELSE /\ accounts' = Append(accounts, [inner |-> r.val.body,
                                                     kid |-> r.val.location,
                                                     key_pair |-> task.key])
                     /\ Return(Ok(Len(accounts) + 1))
    /\ UNCHANGED <<poolVars, persistVars, conversionVars, builderVars, server, directoryGets, issued, keys, orders, authzs, usedNonces, certKeys>>

\* Account::update, from the response on
account_update_response ==
    /\ pc = "post" /\ task.op = "account_update"
    /\ \E res \in HttpResponses(AccountBodies, AccountUri(task.target)) :
          LET r == get_account(res)
          IN IF r.tag = "Err"
                THEN Return(r) /\ UNCHANGED accounts
                ELSE /\ accounts' = [accounts EXCEPT ![task.target].inner = r.val]
                     /\ Return(Ok(task.target))
    /\ UNCHANGED <<poolVars, persistVars, conversionVars, builderVars, server, directoryGets, issued, keys, orders, authzs, usedNonces, certKeys>>

\* Account::new_order, from the response on
new_order_response ==
    /\ pc = "post" /\ task.op = "new_order"
    /\ \E res \in HttpResponses(OrderBodies, OrderUri(Len(orders) + 1)) :
          LET r == new_order(res)
          IN IF r.tag = "Err"
                THEN Return(r) /\ UNCHANGED orders
                ELSE /\ orders' = Append(orders, [account |-> task.target,
                                                 inner |-> r.val.body,
                                                 location |-> r.val.location,
                                                 domain |-> task.domain])
                     /\ Return(Ok(Len(orders) + 1))
    /\ UNCHANGED <<poolVars, persistVars, conversionVars, builderVars, server, directoryGets, issued, keys, accounts, authzs, usedNonces, certKeys>>

\* Order::update, from the response on
order_update_response ==
    /\ pc = "post" /\ task.op = "order_update"
    /\ \E res \in HttpResponses(OrderBodies, OrderUri(task.target)) :
          LET r == get_order(res)
          IN IF r.tag = "Err"
                THEN Return(r) /\ UNCHANGED orders
                ELSE /\ orders' = [orders EXCEPT ![task.target].inner = r.val]
                     /\ Return(Ok(task.target))
    /\ UNCHANGED <<poolVars, persistVars, conversionVars, builderVars, server, directoryGets, issued, keys, accounts, authzs, usedNonces, certKeys>>

\* Order::finalize that marks the order invalid when server.finalize fails
finalize_response_on_error ==
    /\ pc = "post" /\ task.op = "finalize" /\ task.stage = 1
    /\ \E r \in FinalizeResults :
          IF r.tag = "Err"
             THEN Return(r) /\ orders' = [orders EXCEPT ![task.target].inner.status = "invalid"]
             ELSE /\ orders' = [orders EXCEPT ![task.target].inner = r.val]
                  /\ IF r.val.certificate.tag = "None"
                        THEN pc' = "panicked" /\ UNCHANGED <<task, last, sent>>
                        ELSE /\ Protect("finalize", task.target, 2, r.val.certificate.val,
                                        task.key, task.kid, None, task.domain, <<>>, task.posts)
                             /\ UNCHANGED last
    /\ UNCHANGED <<poolVars, persistVars, conversionVars, builderVars, server, directoryGets, issued, keys, accounts, authzs, usedNonces, certKeys>>

\* Order::finalize, from the result of server.finalize on: the order is replaced,
\* `certificate.as_ref().unwrap()`, then protect for the download
finalize_response ==
    /\ pc = "post" /\ task.op = "finalize" /\ task.stage = 1
    /\ \E r \in FinalizeResults :
          IF r.tag = "Err"
             THEN Return(r) /\ UNCHANGED orders
             ELSE /\ orders' = [orders EXCEPT ![task.target].inner = r.val]
                  /\ IF r.val.certificate.tag = "None"
                        THEN pc' = "panicked" /\ UNCHANGED <<task, last, sent>>
                        ELSE /\ Protect("finalize", task.target, 2, r.val.certificate.val,
                                        task.key, task.kid, None, task.domain, <<>>, task.posts)
                             /\ UNCHANGED last
    /\ UNCHANGED <<poolVars, persistVars, conversionVars, builderVars, server, directoryGets, issued, keys, accounts, authzs, usedNonces, certKeys>>

\* Order::finalize, from the result of server.download_certificate on
download_response ==
    /\ pc = "post" /\ task.op = "finalize" /\ task.stage = 2
    /\ \E r \in DownloadResults : Return(r)
    /\ UNCHANGED <<poolVars, persistVars, conversionVars, builderVars, server, directoryGets, issued, keys, accounts, orders, authzs, usedNonces, certKeys>>

\* Order::authorizations that skips a URI whose fetch failed and goes on
authorizations_response_skip ==
    /\ pc = "post" /\ task.op = "authorizations"
    /\ \E r \in AuthorizationResults :
          LET uris == orders[task.target].inner.authorizations
              acc == IF r.tag = "Err" THEN task.acc
                     ELSE Append(task.acc, [order |-> task.target, inner |-> r.val,
                                            location |-> uris[task.stage]])
          IN IF task.stage = Len(uris)
                THEN /\ authzs' = acc
                     /\ Return(Ok(Len(acc)))
                ELSE /\ Protect("authorizations", task.target, task.stage + 1,
                                uris[task.stage + 1], task.key, task.kid, None, <<>>,
                                acc, task.posts)
                     /\ UNCHANGED <<authzs, last>>
    /\ UNCHANGED <<poolVars, persistVars, conversionVars, builderVars, server, directoryGets, issued, keys, accounts, orders, usedNonces, certKeys>>

\* Order::authorizations / Order::authorization, from the result of
\* server.get_authorization on: push and fetch the next URI, or return the Vec,
\* which takes the place of the one the caller held
authorizations_response ==
    /\ pc = "post" /\ task.op = "authorizations"
    /\ \E r \in AuthorizationResults :
          LET uris == orders[task.target].inner.authorizations
              acc == Append(task.acc, [order |-> task.target, inner |-> r.val,
                                       location |-> uris[task.stage]])
          IN IF r.tag = "Err"
                THEN Return(r) /\ UNCHANGED authzs
                ELSE IF task.stage = Len(uris)
                THEN /\ authzs' = acc
                     /\ Return(Ok(Len(acc)))
                ELSE /\ Protect("authorizations", task.target, task.stage + 1,
                                uris[task.stage + 1], task.key, task.kid, None, <<>>,
                                acc, task.posts)
                     /\ UNCHANGED <<authzs, last>>
    /\ UNCHANGED <<poolVars, persistVars, conversionVars, builderVars, server, directoryGets, issued, keys, accounts, orders, usedNonces, certKeys>>

\* Authorization::update that loses the location when get_authorization fails
authorization_update_response_on_error ==
    /\ pc = "post" /\ task.op = "authorization_update"
    /\ \E r \in AuthorizationResults :
          IF r.tag = "Err"
             THEN Return(r) /\ authzs' = [authzs EXCEPT ![task.target].location = NotAUri]
             ELSE /\ authzs' = [authzs EXCEPT ![task.target].inner = r.val]
                  /\ Return(Ok(task.target))
    /\ UNCHANGED <<poolVars, persistVars, conversionVars, builderVars, server, directoryGets, issued, keys, accounts, orders, usedNonces, certKeys>>

\* Authorization::update, from the result of server.get_authorization on
authorization_update_response ==
    /\ pc = "post" /\ task.op = "authorization_update"
    /\ \E r \in AuthorizationResults :
          IF r.tag = "Err"
             THEN Return(r) /\ UNCHANGED authzs
             ELSE /\ authzs' = [authzs EXCEPT ![task.target].inner = r.val]
                  /\ Return(Ok(task.target))
    /\ UNCHANGED <<poolVars, persistVars, conversionVars, builderVars, server, directoryGets, issued, keys, accounts, orders, usedNonces, certKeys>>

\* Challenge::validate, from the result of server.validate_challenge on
validate_response_marks_valid ==
    /\ pc = "post" /\ task.op = "validate"
    /\ \E r \in ValidateResults :
          /\ Return(IF r.tag = "Err" THEN r ELSE Ok(0))
          /\ authzs' = IF r.tag = "Err" THEN authzs
                       ELSE [authzs EXCEPT ![task.target].inner.status = "valid"]
    /\ UNCHANGED <<poolVars, persistVars, conversionVars, builderVars, server, directoryGets, issued, keys, accounts, orders, usedNonces, certKeys>>

validate_response ==
    /\ pc = "post" /\ task.op = "validate"
    /\ \E r \in ValidateResults : Return(IF r.tag = "Err" THEN r ELSE Ok(0))
    /\ UNCHANGED <<poolVars, persistVars, conversionVars, builderVars, server, directoryGets, issued, keys, accounts, orders, authzs, usedNonces, certKeys>>

NextAcme ==
    \/ \E b \in HyperAcmeServerBuilders : DirectoryBuilder_server(b)
    \/ DirectoryBuilder_default
    \/ \E url \in Urls : DirectoryBuilder_url(url)
    \/ DirectoryBuilder_le_staging
    \/ DirectoryBuilder_default_endpoint
    \/ build
    \/ \E mail \in Mails : new_account_begin(mail)
    \/ \E a \in 1..Len(accounts) : account_update_begin(a)
    \/ \E a \in 1..Len(accounts), domain \in Domains : new_order_begin(a, domain)
    \/ \E o \in 1..Len(orders) : order_update_begin(o)
    \/ \E o \in 1..Len(orders) : finalize_begin(o)
    \/ \E o \in 1..Len(orders) : authorizations_begin(o)
    \/ \E z \in 1..Len(authzs) : authorization_update_begin(z)
    \/ \E z \in 1..Len(authzs) : validate_begin(z)
    \/ \E z \in 1..Len(authzs) : proof(z)
    \/ Resume
    \/ NonceResponse
    \/ new_account_response
    \/ account_update_response
    \/ new_order_response
    \/ order_update_response
    \/ finalize_response
    \/ download_response
    \/ authorizations_response
    \/ authorization_update_response
    \/ validate_response

\* ------------------------------------------------------------------------
\* MemoryPersist (async_acme/src/persist.rs)
\* ------------------------------------------------------------------------
NumHandles == 2
Handles == 1..NumHandles

\* the keys "key" and "empty", the values [0, 0, 0, 0] and [1]
PersistKeys == {<<107, 101, 121>>, <<101, 109, 112, 116, 121>>}
PersistValues == {<<0, 0, 0, 0>>, <<1>>}

\* DataHolder::convert
convert(data_type, key) == <<data_type, key>>

DataHolders == {convert("PrivateKey", k) : k \in PersistKeys}

\* HashMap::insert
insert_alone(map, holder, value) ==
    [x \in DOMAIN map |-> IF x = holder THEN Some(value) ELSE None]

insert(map, holder, value) == [map EXCEPT ![holder] = Some(value)]

Idle == [pc |-> "idle", holder |-> <<>>, value |-> <<>>, result |-> None]

InitPersist ==
    /\ persist_inner = [x \in DataHolders |-> None]
    /\ persist_lock = 0
    /\ handles = [h \in Handles |-> Idle]
    /\ current = [x \in DataHolders |-> {None}]
    /\ window = [h \in Handles |-> {}]

PutsInProgress(holder) ==
    {g \in Handles : handles[g].pc \in {"put_lock", "put_locked", "put_return"}
                        /\ handles[g].holder = holder}

GetsInProgress(holder) ==
    {g \in Handles : handles[g].pc \in {"get_lock", "get_locked", "get_return"}
                        /\ handles[g].holder = holder}

\* MemoryPersist::put is called: the holder is built
put_call(h, key, value) ==
    /\ handles[h].pc = "idle"
    /\ LET holder == convert("PrivateKey", key)
       IN /\ handles' = [handles EXCEPT ![h] = [pc |-> "put_lock", holder |-> holder,
                                                value |-> value, result |-> None]]
          /\ current' = [current EXCEPT ![holder] = @ \cup {Some(value)}]
          /\ window' = [g \in Handles |->
                           IF g = h THEN {}
                           ELSE IF g \in GetsInProgress(holder) THEN window[g] \cup {Some(value)}
                           ELSE window[g]]
    /\ UNCHANGED <<poolVars, acmeVars, conversionVars, persist_inner, persist_lock>>

\* MemoryPersist::get is called: the holder is built
get_call(h, key) ==
    /\ handles[h].pc = "idle"
    /\ LET holder == convert("PrivateKey", key)
       IN /\ handles' = [handles EXCEPT ![h] = [pc |-> "get_lock", holder |-> holder,
                                                value |-> <<>>, result |-> None]]
          /\ window' = [window EXCEPT ![h] = current[holder]]
    /\ UNCHANGED <<poolVars, acmeVars, conversionVars, persist_inner, persist_lock, current>>

\* self.inner.lock()
lock(h) ==
    /\ handles[h].pc \in {"put_lock", "get_lock"}
    /\ persist_lock = 0
    /\ persist_lock' = h
    /\ handles' = [handles EXCEPT ![h].pc = IF @ = "put_lock" THEN "put_locked" ELSE "get_locked"]
    /\ UNCHANGED <<poolVars, acmeVars, conversionVars, persist_inner, current, window>>

\* put: lock.insert(holder, value), and the guard is dropped
put_insert(h) ==
    /\ handles[h].pc = "put_locked"
    /\ persist_inner' = insert(persist_inner, handles[h].holder, handles[h].value)
    /\ persist_lock' = 0
    /\ handles' = [handles EXCEPT ![h].pc = "put_return"]
    /\ UNCHANGED <<poolVars, acmeVars, conversionVars, current, window>>

\* get: lock.get(&holder).map(ToOwned::to_owned), and the guard is dropped
get_read(h) ==
    /\ handles[h].pc = "get_locked"
    /\ handles' = [handles EXCEPT ![h].pc = "get_return",
                                  ![h].result = persist_inner[handles[h].holder]]
    /\ persist_lock' = 0
    /\ UNCHANGED <<poolVars, acmeVars, conversionVars, persist_inner, current, window>>

\* put returns Ok(()) to its caller
put_return(h) ==
    /\ handles[h].pc = "put_return"
    /\ LET holder == handles[h].holder
           mine == Some(handles[h].value)
           others == PutsInProgress(holder) \ {h}
       IN /\ current' = [current EXCEPT ![holder] =
                            {mine} \cup {Some(handles[g].value) : g \in others}
                                   \cup (window[h] \cap current[holder])]
          /\ window' = [g \in Handles |->
                           IF g = h THEN {}
                           ELSE IF g \in others THEN window[g] \cup {mine}
                           ELSE window[g]]
    /\ handles' = [handles EXCEPT ![h] = Idle]
    /\ UNCHANGED <<poolVars, acmeVars, conversionVars, persist_inner, persist_lock>>

\* get returns Ok(result) to its caller
get_return(h) ==
    /\ handles[h].pc = "get_return"
    /\ handles' = [handles EXCEPT ![h] = Idle]
    /\ window' = [window EXCEPT ![h] = {}]
    /\ UNCHANGED <<poolVars, acmeVars, conversionVars, persist_inner, persist_lock, current>>

NextPersist ==
    \/ \E h \in Handles, key \in PersistKeys, value \in PersistValues : put_call(h, key, value)
    \/ \E h \in Handles, key \in PersistKeys : get_call(h, key)
    \/ \E h \in Handles : lock(h)
    \/ \E h \in Handles : put_insert(h)
    \/ \E h \in Handles : get_read(h)
    \/ \E h \in Handles : put_return(h)
    \/ \E h \in Handles : get_return(h)

\* ------------------------------------------------------------------------
\* serde of the DTOs (acme_core/src/dto.rs)
\* ------------------------------------------------------------------------
\* A JSON text is modelled as the value serde_json reads from it: null, a bool,
\* a string, an array, or an object, which is a record of its members (a member
\* that was not written is not in its domain).  serde_json writes a string that
\* holds a quote, a backslash or a control character with escapes, and hands a
\* string it read with escapes to the visitor as an owned, not a borrowed, str.
JStr(s) == [tag |-> "str", val |-> s, escaped |-> s \in {"a\"b"}]

\* ApiErrorType::as_ref for the variants without data; a value of the model is
\* [tag |-> variant, val |-> ""] or [tag |-> "Other", val |-> inner]
as_ref ==
    [AccountDoesNotExist |-> "accountDoesNotExist", AlreadyRevoked |-> "alreadyRevoked", BadCSR |-> "badCSR",
     BadNonce |-> "badNonce", BadPublicKey |-> "badPublicKey", BadRevocationReason |-> "badRevocationReason",
     BadSignatureAlgorithm |-> "badSignatureAlgorithm", CAA |-> "caa", Compound |-> "compound",
     Connection |-> "connection", DNS |-> "dns", ExternalAccountRequired |-> "externalAccountRequired",
     IncorrectResponse |-> "incorrectResponse", InvalidContact |-> "invalidContact", Malformed |-> "malformed",
     OrderNotReady |-> "orderNotReady", RateLimited |-> "rateLimited", RejectedIdentifier |-> "rejectedIdentifier",
     ServerInternal |-> "serverInternal", TLS |-> "tls", Unauthorized |-> "unauthorized",
     UnsupportedContact |-> "unsupportedContact", UnsupportedIdentifier |-> "unsupportedIdentifier", UserActionRequired |-> "userActionRequired"]

\* Deserialize for ApiErrorType: a borrowed str, matched against the names
DeserializeApiErrorType(json) ==
    IF json.tag # "str" \/ json.escaped THEN Err(<<"invalid type", "">>)
    ELSE IF \E v \in DOMAIN as_ref : as_ref[v] = json.val
            THEN Ok([tag |-> CHOOSE v \in DOMAIN as_ref : as_ref[v] = json.val, val |-> ""])
            ELSE Ok([tag |-> "Other", val |-> json.val])

\* Serialize for ApiErrorType
SerializeApiErrorType(this) ==
    JStr(IF this.tag = "Other" THEN this.val ELSE as_ref[this.tag])

\* Serialize for ApiChallengeType
SerializeApiChallengeType(this) ==
    CASE this = "DNS" -> JStr("dns-01")
      [] this = "TLS" -> JStr("tls-alpn-01")
      [] this = "HTTP" -> JStr("http-01")

\* Deserialize for ApiChallengeType
DeserializeApiChallengeType(json) ==
    IF json.tag # "str" THEN Err(<<"invalid type", "">>)
    ELSE CASE json.val = "dns-01" -> Ok("DNS")
           [] json.val = "tls-alpn-01" -> Ok("TLS")
           [] json.val = "http-01" -> Ok("HTTP")
           [] OTHER -> Err(<<"custom", "invalid challenge type">>)

\* the strings http::Uri parses, of those the model uses; a Uri of the model is
\* the string it was parsed from
UriStrings ==
    {"https://google.com", "https://google.com/", "http://google.com", "http://google.com/",
     "https://google.com/test", "https://google.com/test?hihi=was"}

\* http::Uri's Display: scheme, "://", authority, path(), and "?" query; path() of
\* an absolute Uri whose path is empty is "/"
to_string(uri) ==
    CASE uri = "https://google.com" -> "https://google.com/"
      [] uri = "http://google.com" -> "http://google.com/"
      [] OTHER -> uri

\* Deserialize for Uri: UriVisitor::visit_str / visit_string
DeserializeUri(json) ==
    IF json.tag # "str" THEN Err(<<"invalid type", "">>)
    ELSE IF json.val \in UriStrings THEN Ok(json.val)
    ELSE Err(<<"custom", "invalid uri">>)

\* derive(Serialize) for ApiOrder<()>
SerializeApiOrder(order) ==
    LET camelCase == [Pending |-> "pending", Ready |-> "ready", Processing |-> "processing",
                      Valid |-> "valid", Invalid |-> "invalid"]
        \* time::serde::rfc3339 of the one OffsetDateTime the model uses
        rfc3339(datetime) == JStr("1970-01-01T00:00:00Z")
        ApiIdentifier(identifier) ==
            [tag |-> "object", val |-> [type |-> JStr("dns"), value |-> JStr(identifier.value)]]
        String(string) == JStr(string)
        SerializeUri(uri) == JStr(to_string(uri))
        \* #[serde(skip_serializing_if = "Option::is_none")]: the members written for field
        skip_serializing_if(field, value, ser(_)) ==
            IF value = None THEN [n \in {} |-> 0] ELSE field :> ser(value.val)
    IN [tag |-> "object",
        val |-> ("status" :> JStr(camelCase[order.status]))
                @@ skip_serializing_if("expires", order.expires, rfc3339)
                @@ ("identifiers" :> [tag |-> "array",
                                      val |-> [i \in DOMAIN order.identifiers |->
                                                  ApiIdentifier(order.identifiers[i])]])
                @@ skip_serializing_if("notBefore", order.not_before, String)
                @@ skip_serializing_if("notAfter", order.not_after, String)
                @@ ("error" :> [tag |-> "null"])
                @@ ("authorizations" :> [tag |-> "array",
                                         val |-> [i \in DOMAIN order.authorizations |->
                                                     SerializeUri(order.authorizations[i])]])
                @@ ("finalize" :> SerializeUri(order.finalize))
                @@ skip_serializing_if("certificate", order.certificate, SerializeUri)]

\* derive(Deserialize) for ApiOrder<()>; expires has `with = "rfc3339_option"` and
\* no `default`, so its member must be there
DeserializeApiOrder(json) ==
    LET object == json.val
        \* derive(Deserialize), a field without attributes: a missing member is an error
        Field(map, field, de(_)) ==
            IF field \in DOMAIN map THEN de(map[field]) ELSE Err(<<"missing field", field>>)
        \* derive(Deserialize), a field of type Option<T> without deserialize_with:
        \* a missing member and null are None
        OptionField(map, field, de(_)) ==
            IF field \notin DOMAIN map \/ map[field].tag = "null" THEN Ok(None)
            ELSE LET r == de(map[field]) IN IF r.tag = "Ok" THEN Ok(Some(r.val)) ELSE r
        \* derive(Deserialize): the struct of the fields' values, or the first error;
        \* fields is a sequence of <<field, Result>>
        Struct(fields) ==
            IF \E i \in DOMAIN fields : fields[i][2].tag = "Err"
               THEN fields[CHOOSE i \in DOMAIN fields :
                              /\ fields[i][2].tag = "Err"
                              /\ \A j \in 1..(i - 1) : fields[j][2].tag = "Ok"][2]
               ELSE Ok([n \in {fields[i][1] : i \in DOMAIN fields} |->
                           fields[CHOOSE i \in DOMAIN fields : fields[i][1] = n][2].val])
        Vec(array, de(_)) ==
            IF array.tag # "array" THEN Err(<<"invalid type", "">>)
            ELSE Struct([i \in DOMAIN array.val |-> <<i, de(array.val[i])>>])
        ApiOrderStatus(status) ==
            IF status.tag # "str" THEN Err(<<"invalid type", "">>)
            ELSE CASE status.val = "pending" -> Ok("Pending")
                   [] status.val = "ready" -> Ok("Ready")
                   [] status.val = "processing" -> Ok("Processing")
                   [] status.val = "valid" -> Ok("Valid")
                   [] status.val = "invalid" -> Ok("Invalid")
                   [] OTHER -> Err(<<"unknown variant", status.val>>)
        rfc3339_option(expires) ==
            IF expires.tag = "null" THEN Ok(None)
            ELSE IF expires.tag = "str"
                    /\ expires.val \in {"1970-01-01T00:00:00Z", "1970-01-01T00:00:00+00:00"}
                    THEN Ok(Some([unix_timestamp |-> 0, offset |-> 0]))
            ELSE Err(<<"invalid value", "">>)
        String(string) ==
            IF string.tag = "str" THEN Ok(string.val) ELSE Err(<<"invalid type", "">>)
        ApiIdentifier(identifier) ==
            IF identifier.tag # "object" THEN Err(<<"invalid type", "">>)
            ELSE Struct(<< <<"type_field",
                             LET type == Field(identifier.val, "type", String)
                             IN IF type.tag = "Err" THEN type
                                ELSE IF type.val = "dns" THEN Ok("DNS")
                                ELSE Err(<<"unknown variant", type.val>>)>>,
                           <<"value", Field(identifier.val, "value", String)>> >>)
        identifiers(array) == Vec(array, ApiIdentifier)
        authorizations(array) == Vec(array, DeserializeUri)
        unit(null) == IF null.tag = "null" THEN Ok(<<>>) ELSE Err(<<"invalid type", "">>)
    IN IF json.tag # "object" THEN Err(<<"invalid type", "">>)
       ELSE Struct(<< <<"status", Field(object, "status", ApiOrderStatus)>>,
                      <<"expires", Field(object, "expires", rfc3339_option)>>,
                      <<"identifiers", Field(object, "identifiers", identifiers)>>,
                      <<"not_before", OptionField(object, "notBefore", String)>>,
                      <<"not_after", OptionField(object, "notAfter", String)>>,
                      <<"error", OptionField(object, "error", unit)>>,
                      <<"authorizations", Field(object, "authorizations", authorizations)>>,
                      <<"finalize", Field(object, "finalize", DeserializeUri)>>,
                      <<"certificate", OptionField(object, "certificate", DeserializeUri)>> >>)

\* the urn RFC 8555 registers for each error type
RegisteredUrn ==
    [AccountDoesNotExist |-> "urn:ietf:params:acme:error:accountDoesNotExist", AlreadyRevoked |-> "urn:ietf:params:acme:error:alreadyRevoked",
     BadCSR |-> "urn:ietf:params:acme:error:badCSR", BadNonce |-> "urn:ietf:params:acme:error:badNonce",
     BadPublicKey |-> "urn:ietf:params:acme:error:badPublicKey", BadRevocationReason |-> "urn:ietf:params:acme:error:badRevocationReason",
     BadSignatureAlgorithm |-> "urn:ietf:params:acme:error:badSignatureAlgorithm", CAA |-> "urn:ietf:params:acme:error:caa",
     Compound |-> "urn:ietf:params:acme:error:compound", Connection |-> "urn:ietf:params:acme:error:connection",
     DNS |-> "urn:ietf:params:acme:error:dns", ExternalAccountRequired |-> "urn:ietf:params:acme:error:externalAccountRequired",
     IncorrectResponse |-> "urn:ietf:params:acme:error:incorrectResponse", InvalidContact |-> "urn:ietf:params:acme:error:invalidContact",
     Malformed |-> "urn:ietf:params:acme:error:malformed", OrderNotReady |-> "urn:ietf:params:acme:error:orderNotReady",
     RateLimited |-> "urn:ietf:params:acme:error:rateLimited", RejectedIdentifier |-> "urn:ietf:params:acme:error:rejectedIdentifier",
     ServerInternal |-> "urn:ietf:params:acme:error:serverInternal", TLS |-> "urn:ietf:params:acme:error:tls",
     Unauthorized |-> "urn:ietf:params:acme:error:unauthorized", UnsupportedContact |-> "urn:ietf:params:acme:error:unsupportedContact",
     UnsupportedIdentifier |-> "urn:ietf:params:acme:error:unsupportedIdentifier", UserActionRequired |-> "urn:ietf:params:acme:error:userActionRequired"]

\* RingKeyPair::export_public_key without the check of the first octet
export_public_key_any_format(public) ==
    IF Len(public) # 97 THEN Err(<<"InvalidPublicKeyLenght", Len(public)>>)
    ELSE Ok(<<Base64UrlNoPad(SubSeq(public, 2, 49)), Base64UrlNoPad(SubSeq(public, 50, 97))>>)

\* RingKeyPair::export_public_key, public the bytes of the EcdsaKeyPair's public
\* key: the length, split_at(49), the first octet, then x[1..] and y in base64
\* (encode_config_slice returns the number of characters written)
export_public_key(public) ==
    IF Len(public) # 97 THEN Err(<<"InvalidPublicKeyLenght", Len(public)>>)
    ELSE LET x == SubSeq(public, 1, 49)
             y == SubSeq(public, 50, Len(public))
             x_base64 == Base64UrlNoPad(Tail(x))
             y_base64 == Base64UrlNoPad(y)
         IN IF x[1] # 4 THEN Err(<<"WrongCompressionFormat", x[1]>>)
            ELSE IF Len(x_base64) # CoordLen THEN Err(<<"InvalidBase64Len", "X", Len(x_base64)>>)
            ELSE IF Len(y_base64) # CoordLen THEN Err(<<"InvalidBase64Len", "Y", Len(y_base64)>>)
            ELSE Ok(<<x_base64, y_base64>>)

\* the values and JSON texts handed to the conversions, by type and form; the
\* raw public keys are byte strings of some length, first octet and content
ConversionInputs ==
    << {[type |-> "ApiErrorType", form |-> "json", val |-> JStr(s)] :
        s \in {as_ref[v] : v \in DOMAIN as_ref} \cup {RegisteredUrn[v] : v \in DOMAIN RegisteredUrn}
              \cup {"", "Malformed", "urn:ietf:params:acme:error:unknown", "a\"b"}}
       \cup {[type |-> "ApiErrorType", form |-> "json",
              val |-> [tag |-> "str", val |-> "badNonce", escaped |-> TRUE]]},
       {[type |-> "ApiChallengeType", form |-> "value", val |-> t] : t \in {"DNS", "TLS", "HTTP"}},
       {[type |-> "ApiChallengeType", form |-> "json", val |-> JStr(s)] :
             s \in {"dns-01", "tls-alpn-01", "http-01", "dns", "HTTP-01", "http-02", ""}},
       {[type |-> "Uri", form |-> "value", val |-> u] : u \in UriStrings},
       {[type |-> "Uri", form |-> "json", val |-> JStr(s)] : s \in {"https://google.com", "not a uri"}},
       {[type |-> "ApiOrder", form |-> "value",
           val |-> [status |-> st, expires |-> e,
                    identifiers |-> << [type_field |-> "DNS", value |-> "nginx"] >>,
                    not_before |-> nb, not_after |-> None, error |-> None,
                    authorizations |-> << "https://google.com/test" >>,
                    finalize |-> "https://google.com/test?hihi=was", certificate |-> c]] :
             st \in {"Pending", "Ready", "Processing", "Valid", "Invalid"},
             e \in {None, Some([unix_timestamp |-> 0, offset |-> 0])},
             nb \in {None, Some("1970-01-01T00:00:00Z")},
             c \in {None, Some("https://google.com/")}},
       {[type |-> "RingPublicKey", form |-> "raw",
         val |-> [i \in 1..len |-> IF i = 1 THEN first ELSE (mul * i + add) % 256]] :
             len \in {0, 1, 49, 96, 97, 98}, first \in {0, 2, 3, 4, 255},
             mul \in {0, 7, 85}, add \in {0, 255}} >>

\* no conversion in progress
NoDocument == [type |-> "none", form |-> "none", val |-> 0]

\* a value or a JSON text is handed to the conversions; nothing else runs
InitConversion ==
    /\ InitPool /\ InitAcme /\ InitPersist
    /\ \E i \in DOMAIN ConversionInputs : origin \in ConversionInputs[i]
    /\ doc = origin

\* serde_json::to_vec(&value), with the Serialize impl of the value's type
to_vec ==
    /\ doc.form = "value"
    /\ doc' = [type |-> doc.type, form |-> "json",
               val |-> CASE doc.type = "ApiErrorType" -> SerializeApiErrorType(doc.val)
                         [] doc.type = "ApiChallengeType" -> SerializeApiChallengeType(doc.val)
                         [] doc.type = "Uri" -> JStr(to_string(doc.val))
                         [] doc.type = "ApiOrder" -> SerializeApiOrder(doc.val)]
    /\ UNCHANGED <<poolVars, acmeVars, persistVars, origin>>

\* serde_json::from_slice(json), with the Deserialize impl of the type asked for
from_slice ==
    /\ doc.form = "json"
    /\ LET result == CASE doc.type = "ApiErrorType" -> DeserializeApiErrorType(doc.val)
                        [] doc.type = "ApiChallengeType" -> DeserializeApiChallengeType(doc.val)
                        [] doc.type = "Uri" -> DeserializeUri(doc.val)
                        [] doc.type = "ApiOrder" -> DeserializeApiOrder(doc.val)
       IN doc' = [type |-> doc.type,
                  form |-> IF result.tag = "Ok" THEN "value" ELSE "error",
                  val |-> result.val]
    /\ UNCHANGED <<poolVars, acmeVars, persistVars, origin>>

\* RingCrypto::private_key hands the public key of the new pair to export_public_key
export ==
    /\ doc.form = "raw"
    /\ LET result == export_public_key(doc.val)
       IN doc' = [type |-> doc.type,
                  form |-> IF result.tag = "Ok" THEN "jwk" ELSE "error",
                  val |-> result.val]
    /\ UNCHANGED <<poolVars, acmeVars, persistVars, origin>>

NextConversion ==
    \/ to_vec
    \/ from_slice
    \/ export

\* ------------------------------------------------------------------------
\* TestCrypto and RingKeyPair (src/acme/jws/mod.rs)
\* ------------------------------------------------------------------------
\* the PKCS#8 documents EcdsaKeyPair::generate_pkcs8 makes, shortened
Pkcs8Documents == {<<48, 1>>, <<48, 2, 2>>}

\* the kids handed to set_kid: "", "k", "/a/1"
Kids == {<<>>, <<107>>, <<47, 97, 47, 49>>}

\* set_kid calls on one key pair
MaxSetKid == 2

\* the Vec<u8> values handed to RingKeyPair::try_from: what generate_key builds
\* (the length octet and the document), the same followed by a kid, an empty
\* vector, a first octet 0, a document ring rejects, a length beyond the vector
KeyPairInputs ==
    {<<Len(d)>> \o d \o k : d \in Pkcs8Documents, k \in {<<>>, <<107>>}}
    \cup {<<>>, <<0>>, <<0, 48, 1>>, <<2, 49, 1>>, <<5, 48, 1>>}

pkcs_len_inclusive(data) ==
    IF data = <<>> THEN Err(<<"InvalidFirstOctetInPublic", None>>)
    ELSE IF data[1] = 0 THEN Err(<<"InvalidFirstOctetInPublic", Some(0)>>)
    ELSE Ok(data[1] + 1)

\* TryFrom<Vec<u8>> for RingKeyPair; &data[1..len] panics when len exceeds the
\* vector; the pair is ECDSA P-384, its public key has 97 octets
try_from_vec(data) ==
    LET len == pkcs_len_inclusive(data)
    IN IF len.tag = "Err" THEN len
       ELSE IF len.val > Len(data) THEN [tag |-> "Panic", val |-> "range end index"]
       ELSE IF SubSeq(data, 2, len.val) \notin Pkcs8Documents THEN Err(<<"KeyRejected", "">>)
       ELSE Ok([data |-> data,
                pair |-> [pkcs8 |-> SubSeq(data, 2, len.val), public_len |-> 97]])

\* Serialize for RingKeyPair: the kid as a string when data is longer than the
\* length-prefixed document, else the struct with kty, crv, x, y
SerializeRingKeyPair(keypair) ==
    LET pkcs_len == keypair.data[1] + 1
    IN IF pkcs_len # Len(keypair.data)
          THEN [tag |-> "str", val |-> SubSeq(keypair.data, pkcs_len + 1, Len(keypair.data))]
          ELSE [tag |-> "struct",
                val |-> IF keypair.pair.public_len = 65 THEN <<"kty", "crv", "x", "y">>
                        ELSE <<"InvalidPublicLen", keypair.pair.public_len>>]

\* TestCrypto::set_kid
set_kid(kid) ==
    /\ doc.type = "RingKeyPair" /\ doc.form = "keypair"
    /\ Len(doc.val.kids) < MaxSetKid
    /\ LET data == doc.val.data
           pkcs_len == data[1] + 1
           truncated == IF pkcs_len # Len(data) /\ pkcs_len < Len(data)
                           THEN SubSeq(data, 1, pkcs_len) ELSE data
       IN doc' = [doc EXCEPT !.val.data = truncated \o kid,
                             !.val.kids = Append(doc.val.kids, kid),
                             !.val.out = None]
    /\ UNCHANGED <<poolVars, acmeVars, persistVars, origin>>

\* RingKeyPair::try_from on a vector, as generate_key calls it
try_from ==
    /\ doc.type = "RingKeyPair" /\ doc.form = "bytes"
    /\ LET result == try_from_vec(doc.val)
       IN doc' = IF result.tag = "Ok"
                    THEN [type |-> doc.type, form |-> "keypair",
                          val |-> [data |-> result.val.data, pair |-> result.val.pair,
                                   kids |-> <<>>, out |-> None]]
                    ELSE [type |-> doc.type,
                          form |-> IF result.tag = "Err" THEN "error" ELSE "panic",
                          val |-> result.val]
    /\ UNCHANGED <<poolVars, acmeVars, persistVars, origin>>

\* the key pair is serialized; out keeps what was written
serialize ==
    /\ doc.type = "RingKeyPair" /\ doc.form = "keypair"
    /\ doc.val.out = None
    /\ doc' = [doc EXCEPT !.val.out = Some(SerializeRingKeyPair(doc.val))]
    /\ UNCHANGED <<poolVars, acmeVars, persistVars, origin>>

\* ------------------------------------------------------------------------
\* Request, Protected, Signer (acme_core/src/request)
\* ------------------------------------------------------------------------
\* RequestImpl::new(protected, payload, signer): the key type K is Kid or Jwk<T>,
\* the nonce type N is NoNonce or Nonce; alg "ES384"; url "/acct/1" or "/order/1";
\* the payload is "" or {}; one of two signers
RequestInputs ==
    {[protected |-> [alg |-> AlgES384, key |-> k, nonce |-> n, url |-> u],
      payload |-> b, signer |-> sg] :
        k \in {[tag |-> "Kid", kid |-> AccountUri(1)],
               [tag |-> "Jwk", crv |-> <<80, 45, 51, 56, 52>>, kty |-> <<69, 67>>,
                x |-> <<120, 49>>, y |-> <<121, 49>>]},
        n \in {[tag |-> "NoNonce", val |-> <<>>], [tag |-> "Nonce", val |-> <<110, 49>>],
               [tag |-> "Nonce", val |-> <<>>]},
        u \in {AccountUri(1), OrderUri(1)},
        b \in {JsonString(<<>>), JsonObject(<<>>)},
        sg \in {1, 2}}

\* Signer::sign(protected, payload) of signer sg; the trait has no implementation
\* in the crate, the output stands for one that depends on all three
SignerSign(sg, protected, payload) == <<48 + sg>> \o protected \o <<46>> \o payload

\* Serialize for ProtectedWrapper that writes every key under "jwk"
SerializeProtectedWrapper_jwk(protected) ==
    JsonObject(
        << <<<<97, 108, 103>>, JsonString(protected.alg)>>,
           <<<<106, 119, 107>>, JsonString(<<>>)>> >>
        \o (IF protected.nonce.tag = "Nonce"
               THEN << <<<<110, 111, 110, 99, 101>>, JsonString(protected.nonce.val)>> >>
               ELSE <<>>)
        \o << <<<<117, 114, 108>>, JsonString(protected.url)>> >>)

\* Serialize for ProtectedWrapper: alg, then kid (K is Kid) or jwk (Serialize for
\* Jwk<T>: crv, kty, x, y), then nonce when N is Nonce, then url
SerializeProtectedWrapper(protected) ==
    JsonObject(
        << <<<<97, 108, 103>>, JsonString(protected.alg)>>,
           IF protected.key.tag = "Kid"
              THEN <<<<107, 105, 100>>, JsonString(protected.key.kid)>>
              ELSE <<<<106, 119, 107>>,
                     JsonObject(<< <<<<99, 114, 118>>, JsonString(protected.key.crv)>>,
                                   <<<<107, 116, 121>>, JsonString(protected.key.kty)>>,
                                   <<<<120>>, JsonString(protected.key.x)>>,
                                   <<<<121>>, JsonString(protected.key.y)>> >>)>> >>
        \o (IF protected.nonce.tag = "Nonce"
               THEN << <<<<110, 111, 110, 99, 101>>, JsonString(protected.nonce.val)>> >>
               ELSE <<>>)
        \o << <<<<117, 114, 108>>, JsonString(protected.url)>> >>)

\* base64_and_serialize, given serde_json's bytes
base64_and_serialize(json) == Base64UrlNoPad(json)

\* Serialize for RequestImpl: the fields protected, payload, signature
SerializeRequestImpl(request) ==
    LET protected == base64_and_serialize(SerializeProtectedWrapper(request.protected))
        payload == base64_and_serialize(request.payload)
    IN [protected |-> protected, payload |-> payload,
        signature |-> SignerSign(request.signer, protected, payload)]

\* the request is serialized
serialize_request ==
    /\ doc.type = "Request" /\ doc.form = "request"
    /\ doc' = [type |-> doc.type, form |-> "written", val |-> SerializeRequestImpl(doc.val)]
    /\ UNCHANGED <<poolVars, acmeVars, persistVars, origin>>

\* a vector is handed to RingKeyPair::try_from, or a request is built; nothing
\* else runs
InitJws ==
    /\ InitPool /\ InitAcme /\ InitPersist
    /\ \/ origin \in {[type |-> "RingKeyPair", form |-> "bytes", val |-> d] : d \in KeyPairInputs}
       \/ origin \in {[type |-> "Request", form |-> "request", val |-> r] : r \in RequestInputs}
    /\ doc = origin

NextJws ==
    \/ try_from
    \/ \E kid \in Kids : set_kid(kid)
    \/ serialize
    \/ serialize_request

\* ------------------------------------------------------------------------
\* Specifications
\* ------------------------------------------------------------------------
NextPool ==
    \/ \E c \in Callers : get_nonce(c)
    \/ \E c \in Callers : get_nonce_send(c)
    \/ \E c \in Callers : get_nonce_recv(c)
    \/ \E c \in Callers : Cancel(c)
    \/ DropPool
    \/ Prefetch
    \/ FetchDone
    \/ Serve
    \/ Closed

Init == InitPool /\ InitAcme /\ InitPersist /\ origin = NoDocument /\ doc = NoDocument

\* the NoncePool with its requesters and background task
PoolSpec == Init /\ [][NextPool]_vars

\* the orchestration layer against an ACME server
Spec == Init /\ [][NextAcme]_vars

\* handles of one MemoryPersist used concurrently
PersistSpec == Init /\ [][NextPersist]_vars

\* values going through serde_json, raw public keys through export_public_key
ConversionSpec == InitConversion /\ [][NextConversion]_vars

\* key pairs of TestCrypto through set_kid and Serialize, requests of acme_core
\* through Serialize
JwsSpec == InitJws /\ [][NextJws]_vars

\* the channel bound of the backlog specification, where it stands for the 64 of
\* mpsc::channel(64): fewer places than requesters
MaxPending == 1

\* a NoncePool whose channel has MaxPending places, or the 64 of the source
InitBacklog ==
    /\ poolAlive = TRUE
    /\ receiver = <<>>
    /\ taskPc = "loop"
    /\ nonce_cache = None
    /\ headsServed = 0
    /\ headsSent = 0
    /\ headsFailed = 0
    /\ callers = [c \in Callers |-> [pc |-> "idle", slot |-> None]]
    /\ dispensed = <<>>
    /\ arrivals = <<>>
    /\ capacity \in {MaxPending, ChannelCapacity}
    /\ atDrop = None
    /\ InitAcme /\ InitPersist /\ origin = NoDocument /\ doc = NoDocument

NextBacklog ==
    \/ NextPool
    \/ RuntimeShutdown

\* every HEAD completes, the background task and the requesters' futures are
\* polled when they can go on, and the channel's semaphore is fair to a sender
\* that waits for room
PoolFairness ==
    /\ WF_vars(Prefetch)
    /\ WF_vars(FetchDone)
    /\ WF_vars(Serve)
    /\ WF_vars(Closed)
    /\ \A c \in Callers : WF_vars(get_nonce_recv(c)) /\ SF_vars(get_nonce_send(c))

\* the NoncePool with more requesters than places in its channel, under fair
\* scheduling, the runtime shutting down or not
BacklogSpec == InitBacklog /\ [][NextBacklog]_vars /\ PoolFairness

\* ------------------------------------------------------------------------
\* C1: every nonce value is delivered to at most one requester: the nonces the
\* requesters got back are pairwise distinct, and no value was dispensed twice.
\* ------------------------------------------------------------------------
Returned(c) == callers[c].pc = "done" /\ callers[c].slot.val.tag = "Ok"

NonceDispensedOnce ==
    /\ \A c1, c2 \in Callers :
          (c1 # c2 /\ Returned(c1) /\ Returned(c2))
             => callers[c1].slot.val.val # callers[c2].slot.val.val
    /\ \A i, j \in 1..Len(dispensed) :
          (i # j /\ dispensed[i].value.tag = "Ok" /\ dispensed[j].value.tag = "Ok")
             => dispensed[i].value.val # dispensed[j].value.val
    /\ \A c \in Callers : Returned(c) =>
          \E i \in 1..Len(dispensed) :
             dispensed[i] = [to |-> c, value |-> callers[c].slot.val]

AllCallersGotNonces == \A c \in Callers : Returned(c)

\* ------------------------------------------------------------------------
\* C2: the newAccount request is the only signed request whose protected header
\* carries jwk (the public key of the new account key); every request made through
\* an Account, its Orders, Authorizations and Challenges carries kid, equal to the
\* Location the account was created with.
\* ------------------------------------------------------------------------
InFlight == pc = "post"

\* the account a request in flight is made through (0 for newAccount)
AccountOf(op, target) ==
    IF op = "new_account" THEN 0
    ELSE IF op \in {"account_update", "new_order"} THEN target
    ELSE IF op \in {"order_update", "finalize", "authorizations"} THEN orders[target].account
    ELSE orders[authzs[target].order].account

KidAfterNewAccount ==
    InFlight =>
        IF sent.op = "new_account"
           THEN /\ sent.protected.jwk.tag = "JWK"
                /\ sent.protected.jwk.val = private_key(task.key).public_key
           ELSE /\ sent.protected.jwk.tag = "KID"
                /\ sent.protected.jwk.val = accounts[AccountOf(sent.op, sent.target)].kid
                /\ sent.protected.jwk.val = AccountUri(AccountOf(sent.op, sent.target))

ValidateSentWithKid ==
    InFlight /\ sent.op = "validate" /\ sent.protected.jwk.tag = "KID"

\* ------------------------------------------------------------------------
\* C3: against a server whose Replay-Nonce values are all different, no nonce is in
\* the protected header of two signed requests, and the nonce of the request in
\* flight is the one the server issued last, in the new_nonce call of that request.
\* ------------------------------------------------------------------------
NonceUsedOnce ==
    /\ \A i, j \in 1..Len(usedNonces) : i # j => usedNonces[i] # usedNonces[j]
    /\ Len(usedNonces) = issued
    /\ InFlight => /\ sent.protected.nonce = NonceStr(issued)
                   /\ usedNonces[Len(usedNonces)] = sent.protected.nonce

DownloadSentAfterFinalize ==
    InFlight /\ sent.op = "finalize" /\ sent.stage = 2 /\ Len(usedNonces) >= 4

\* ------------------------------------------------------------------------
\* C4: an operation whose only POST was answered with an ApiError of type badNonce
\* does not return that error to its caller (it retries with a fresh nonce).
\* ------------------------------------------------------------------------
HyperOps == {"new_account", "account_update", "new_order", "order_update"}

BadNonceNotSurfaced ==
    ~(/\ pc = "returned"
      /\ last.op \in HyperOps
      /\ last.posts = 1
      /\ last.result = Err(<<"ApiError", "badNonce">>))

\* ------------------------------------------------------------------------
\* C5: while a newAccount or newOrder POST is in flight, every 2xx response without
\* Location makes new_account / new_order return an error that is no ApiError,
\* InvalidHeader when the body parses; every Account and Order the caller holds
\* has the Location of its response as identifier.
\* ------------------------------------------------------------------------
NoLocation(res) == IsSuccess(res.status) /\ res.location.tag = "None"

MissingLocationIsError ==
    /\ (InFlight /\ sent.op = "new_account") =>
          \A res \in HttpResponses(AccountBodies, AccountUri(Len(accounts) + 1)) :
             NoLocation(res) =>
                /\ new_account(res).tag = "Err"
                /\ new_account(res).val[1] # "ApiError"
                /\ res.body.tag = "ApiAccount"
                      => new_account(res).val = <<"InvalidHeader", "None">>
    /\ (InFlight /\ sent.op = "new_order") =>
          \A res \in HttpResponses(OrderBodies, OrderUri(Len(orders) + 1)) :
             NoLocation(res) =>
                /\ new_order(res).tag = "Err"
                /\ new_order(res).val[1] # "ApiError"
                /\ res.body.tag = "ApiOrder"
                      => new_order(res).val = <<"InvalidHeader", "None">>
    /\ \A a \in 1..Len(accounts) : accounts[a].kid = AccountUri(a)
    /\ \A o \in 1..Len(orders) : orders[o].location = OrderUri(o)

NewOrderWithoutLocation ==
    /\ pc = "returned" /\ last.op = "new_order"
    /\ last.result = Err(<<"InvalidHeader", "None">>)
    /\ orders = <<>>

\* ------------------------------------------------------------------------
\* C6: no operation panics, whatever the server answers.
\* ------------------------------------------------------------------------
NoPanic == pc # "panicked"

\* ------------------------------------------------------------------------
\* C7: the certificate download request is in flight only for an order the client
\* has observed in status valid.
\* ------------------------------------------------------------------------
DownloadOnlyWhenValid ==
    (InFlight /\ sent.op = "finalize" /\ sent.stage = 2)
       => orders[sent.target].inner.status = "valid"

\* ------------------------------------------------------------------------
\* C8: with a generator that never repeats a key, the key pair of a finalize call's
\* CSR is generated in that call: it is the key of no account, not the key that
\* signs the call's requests, and differs from the key of every other finalize call.
\* ------------------------------------------------------------------------
CertificateKeyFresh ==
    /\ \A i \in 1..Len(certKeys) :
          /\ \A a \in 1..Len(accounts) : certKeys[i].key_pair # accounts[a].key_pair
          /\ certKeys[i].key_pair # accounts[orders[certKeys[i].order].account].key_pair
          /\ \A j \in 1..Len(certKeys) : i # j => certKeys[i].key_pair # certKeys[j].key_pair
    /\ (pc \in {"nonce", "post"} /\ task.op = "finalize")
          => /\ certKeys # <<>>
             /\ certKeys[Len(certKeys)].key_pair # task.key
             /\ certKeys[Len(certKeys)].key_pair = keys

TwoFinalizeCalls ==
    /\ Len(certKeys) = 2
    /\ InFlight /\ sent.op = "finalize" /\ sent.stage = 1

\* ------------------------------------------------------------------------
\* C9: the payload of every POST-as-GET request (account update, order update,
\* authorization fetch, certificate download) serializes as the JSON string "",
\* and the signed bytes are the protected header's base64 followed by one '.'.
\* ------------------------------------------------------------------------
IsPostAsGet(r) ==
    \/ r.op \in {"account_update", "order_update", "authorizations", "authorization_update"}
    \/ r.op = "finalize" /\ r.stage = 2

PostAsGetEmptyPayload ==
    (InFlight /\ IsPostAsGet(sent)) =>
        /\ JsonString(PayloadSerialize(sent.request.payload)) = <<34, 34>>
        /\ sent.request.protected = Base64UrlNoPad(SerializeProtected(sent.protected))
        /\ sent.request.signature =
              EncodedSignature(private_key(task.key), sent.request.protected \o <<46>>)

OrderUpdateSent == InFlight /\ sent.op = "order_update"

\* ------------------------------------------------------------------------
\* C10: the request of Challenge::validate goes to the challenge's url and carries a
\* Post payload, "e30", the base64url of `{}`; the signed bytes end in ".e30".
\* ------------------------------------------------------------------------
ValidatePostsEmptyObject ==
    (InFlight /\ sent.op = "validate") =>
        /\ sent.protected.url = ChallengeUrl
        /\ sent.request.payload = [tag |-> "Post", inner |-> <<101, 51, 48>>]
        /\ JsonString(PayloadSerialize(sent.request.payload)) = <<34, 101, 51, 48, 34>>
        /\ sent.request.signature =
              EncodedSignature(private_key(task.key),
                               sent.request.protected \o <<46, 101, 51, 48>>)

ValidateSentForHttpChallenge ==
    /\ InFlight /\ sent.op = "validate"
    /\ authzs[sent.target].inner.challenges[http_challenge(authzs[sent.target])] = HttpChallenge

\* ------------------------------------------------------------------------
\* C11: the signature field of every signed request is the base64url of the
\* signature, under the key pair handed to sign, of the request's own protected
\* field, a '.', and the string its payload field carries.
\* ------------------------------------------------------------------------
SignatureBindsFields ==
    InFlight =>
        /\ sent.request.protected = Base64UrlNoPad(SerializeProtected(sent.protected))
        /\ sent.request.signature =
              EncodedSignature(private_key(task.key),
                               sent.request.protected \o <<46>>
                                  \o PayloadSerialize(sent.request.payload))

NewOrderSigned ==
    InFlight /\ sent.op = "new_order" /\ sent.request.payload.tag = "Post"

\* ------------------------------------------------------------------------
\* C12: while a POST of new_account, get_account, new_order or get_order is in
\* flight, every non-2xx response whose body carries the server's error type and
\* detail makes the call return ApiError with that type; and no non-2xx response
\* makes it return Ok.
\* ------------------------------------------------------------------------
ResponsesTo(op) ==
    IF op \in {"new_account", "account_update"}
       THEN HttpResponses(AccountBodies, AccountUri(1))
       ELSE HttpResponses(OrderBodies, OrderUri(1))

ExpectedBody(op) ==
    IF op \in {"new_account", "account_update"} THEN "ApiAccount" ELSE "ApiOrder"

ErrorResponseSurfaced ==
    (InFlight /\ sent.op \in HyperOps) =>
        \A res \in ResponsesTo(sent.op) :
           (~IsSuccess(res.status) /\ res.body.tag \in {"ApiError", "Problem"})
              => post(res, ExpectedBody(sent.op)) = Err(<<"ApiError", res.body.val>>)

NonSuccessNeverOk ==
    (InFlight /\ sent.op \in HyperOps) =>
        \A res \in ResponsesTo(sent.op) :
           ~IsSuccess(res.status) => post(res, ExpectedBody(sent.op)).tag = "Err"

\* ------------------------------------------------------------------------
\* C13: while an operation waits for its nonce, every new-nonce response without a
\* Replay-Nonce header makes new_nonce return an error; a request in flight
\* carries the non-empty value of the header the server sent last, which no
\* earlier request carried.
\* ------------------------------------------------------------------------
NoNonceIsError ==
    /\ pc = "nonce" =>
          \A res \in HeadResponses :
             res.replay_nonce.tag = "None" => new_nonce(res).tag = "Err"
    /\ InFlight =>
          /\ issued >= 1
          /\ sent.protected.nonce = NonceStr(issued)
          /\ sent.protected.nonce # <<>>
          /\ \A i \in 1..(Len(usedNonces) - 1) : usedNonces[i] # sent.protected.nonce

NoNonceReturned ==
    pc = "returned" /\ last.result = Err(<<"Nonce", "None">>)

\* every nonce the NoncePool handed out came from a Replay-Nonce header
PoolNonceFromHeader ==
    \A i \in DOMAIN dispensed :
       dispensed[i].value.tag = "Ok" => dispensed[i].value.val \in 1..headsServed

\* ------------------------------------------------------------------------
\* C14: whatever requesters cancel, every nonce the server issued to the pool is
\* either the one in the cache or was sent to exactly one requester, never both
\* and never neither; and the background task runs as long as the pool exists.
\* ------------------------------------------------------------------------
TimesDispensed(n) ==
    Cardinality({i \in DOMAIN dispensed : dispensed[i].value = Ok(n)})

CancelKeepsNonce ==
    /\ \A n \in 1..headsServed :
          TimesDispensed(n) + (IF nonce_cache = Some(Ok(n)) THEN 1 ELSE 0) = 1
    /\ poolAlive => taskPc # "stopped"

\* the task has dequeued a cancelled requester and is back at the loop head with
\* the nonce it could not send
NonceKeptAfterCancel ==
    /\ taskPc = "loop"
    /\ nonce_cache = Some(Ok(1))
    /\ dispensed = <<>>
    /\ \E c \in Callers : callers[c].pc = "cancelled" /\ receiver = <<>>

\* ------------------------------------------------------------------------
\* C15: a step changes the inner of an Account, Order or Authorization the caller
\* holds only when it is the successful end of update (or of the finalize call of
\* Order::finalize, or of Order::authorizations), and then inner becomes a body
\* the server sent and nothing else of the object changes; besides that,
\* Authorization values only go away when their Order is borrowed mutably; no
\* step of Challenge::validate changes any of the three.
\* ------------------------------------------------------------------------
ReplacedInner(old, new) == new = [old EXCEPT !.inner = new.inner]

CacheStep ==
    /\ \A i \in DOMAIN accounts \cap DOMAIN accounts' :
          accounts'[i] # accounts[i] =>
             /\ pc = "post" /\ task.op = "account_update" /\ task.target = i
             /\ pc' = "returned" /\ last'.result.tag = "Ok"
             /\ [tag |-> "ApiAccount", val |-> accounts'[i].inner] \in AccountBodies
             /\ ReplacedInner(accounts[i], accounts'[i])
    /\ \A i \in DOMAIN orders \cap DOMAIN orders' :
          orders'[i] # orders[i] =>
             /\ pc = "post" /\ task.target = i
             /\ \/ task.op = "order_update" /\ pc' = "returned" /\ last'.result.tag = "Ok"
                \/ task.op = "finalize" /\ task.stage = 1 /\ pc' \in {"nonce", "panicked"}
             /\ [tag |-> "ApiOrder", val |-> orders'[i].inner] \in OrderBodies
             /\ ReplacedInner(orders[i], orders'[i])
    /\ authzs' # authzs =>
          \/ pc = "idle" /\ \E o \in DOMAIN orders : authzs' = EndBorrows(o)
          \/ /\ pc = "post" /\ pc' = "returned" /\ last'.result.tag = "Ok"
             /\ \A i \in DOMAIN authzs' : authzs'[i].inner \in AuthorizationBodies
             /\ \/ task.op = "authorizations"
                \/ /\ task.op = "authorization_update"
                   /\ DOMAIN authzs' = DOMAIN authzs
                   /\ \A i \in DOMAIN authzs :
                         IF i = task.target THEN ReplacedInner(authzs[i], authzs'[i])
                         ELSE authzs'[i] = authzs[i]
    /\ (task.op = "validate" \/ task'.op = "validate") =>
          UNCHANGED <<accounts, orders, authzs>>

CacheChangesOnlyByResponse == [][CacheStep]_vars

OrderReplacedByUpdate ==
    /\ pc = "returned" /\ last.op = "order_update" /\ last.result.tag = "Ok"
    /\ orders[last.target].inner.certificate.tag = "Some"

\* ------------------------------------------------------------------------
\* C16: the key pair of an Account is the one whose public key was the jwk of the
\* newAccount request that created it, it never changes afterwards, no two
\* accounts share it, and every request in flight that is made through the
\* account is signed with it.
\* ------------------------------------------------------------------------
SignedWithAccountKey ==
    /\ (InFlight /\ sent.op # "new_account") =>
          sent.request.signature =
             EncodedSignature(private_key(accounts[AccountOf(sent.op, sent.target)].key_pair),
                              sent.request.protected \o <<46>>
                                 \o PayloadSerialize(sent.request.payload))
    /\ \A i, j \in DOMAIN accounts : i # j => accounts[i].key_pair # accounts[j].key_pair

AccountKeyStep ==
    /\ \A i \in DOMAIN accounts :
          i \in DOMAIN accounts' /\ accounts'[i].key_pair = accounts[i].key_pair
    /\ Len(accounts') > Len(accounts) =>
          /\ InFlight /\ sent.op = "new_account"
          /\ sent.protected.jwk =
                [tag |-> "JWK", val |-> private_key(accounts'[Len(accounts')].key_pair).public_key]
          /\ sent.request.signature =
                EncodedSignature(private_key(accounts'[Len(accounts')].key_pair),
                                 sent.request.protected \o <<46>>
                                    \o PayloadSerialize(sent.request.payload))

AccountKeyReadOnly == []SignedWithAccountKey /\ [][AccountKeyStep]_vars

FinalizeSentForAccount ==
    /\ InFlight /\ sent.op = "finalize" /\ sent.stage = 1
    /\ task.key = accounts[orders[sent.target].account].key_pair

\* ------------------------------------------------------------------------
\* C17: once build has run, exactly one GET of the directory has been made, ever;
\* the server holds the ApiDirectory of that response unchanged, and newAccount
\* and newOrder requests go to the URLs it names.
\* ------------------------------------------------------------------------
DirectoryFetchedOnce ==
    /\ directoryGets = (IF \/ pc = "build"
                            \/ (pc = "build_failed" /\ last.result = Err(<<"NoConnector", "">>))
                         THEN 0 ELSE 1)
    /\ server.tag = "Some" <=> pc \notin {"build", "build_failed"}
    /\ server.tag = "Some" =>
          /\ server.val.directory = directory
          /\ (InFlight /\ sent.op = "new_account") => sent.url = server.val.directory.new_account
          /\ (InFlight /\ sent.op = "new_order") => sent.url = server.val.directory.new_order

NewOrderReturnedAfterBuild ==
    /\ pc = "returned" /\ last.op = "new_order" /\ last.result.tag = "Ok"
    /\ directoryGets = 1

\* ------------------------------------------------------------------------
\* C18: the task has at most one HEAD in flight, and only while its slot is empty;
\* it waits for a requester only with a fetched result in the slot, so no
\* requester is dequeued before the first fetch; and the HEAD requests started
\* never exceed the nonces handed to requesters, plus the requests that failed,
\* plus one.
\* ------------------------------------------------------------------------
HeadsInFlight == headsSent - headsServed - headsFailed

NoncesDelivered ==
    Cardinality({i \in DOMAIN dispensed : dispensed[i].value.tag = "Ok"})

SingleSlotPrefetch ==
    /\ HeadsInFlight \in {0, 1}
    /\ HeadsInFlight = 1 <=> taskPc = "fetching"
    /\ taskPc = "fetching" => nonce_cache = None
    /\ taskPc = "recv" => nonce_cache.tag = "Some" /\ headsSent >= 1
    /\ (\E c \in Callers : callers[c].pc \in {"ready", "orphaned", "done"}) => headsSent >= 1
    /\ headsServed <= NoncesDelivered + 1
    /\ headsSent <= NoncesDelivered + headsFailed + 1

\* a fetch failed, its error could not be sent to a cancelled requester, and the
\* task has started the next fetch
RefetchAfterUndeliveredError ==
    /\ taskPc = "fetching"
    /\ headsSent = 2 /\ headsFailed = 1
    /\ dispensed = <<>>

\* C18 as stated: the fetches never exceed the values delivered plus one
FetchesAtMostDeliveredPlusOne == headsSent <= Len(dispensed) + 1

\* ------------------------------------------------------------------------
\* C19: the requesters that were sent a value were sent it in the order they
\* enqueued their request, none of them before a requester that enqueued earlier
\* and still waits; the queue is the tail of the arrivals; and the nonces sent
\* are the server's first, second, third ... in that order, each already fetched
\* when it was sent.
\* ------------------------------------------------------------------------
Arrival(c) == CHOOSE i \in DOMAIN arrivals : arrivals[i] = c

InOrderService ==
    /\ receiver = SubSeq(arrivals, Len(arrivals) - Len(receiver) + 1, Len(arrivals))
    /\ \A i, j \in DOMAIN dispensed :
          i < j => Arrival(dispensed[i].to) < Arrival(dispensed[j].to)
    /\ \A i \in DOMAIN dispensed : \A c \in Callers :
          callers[c].pc = "waiting" => Arrival(dispensed[i].to) < Arrival(c)
    /\ \A i \in DOMAIN dispensed :
          dispensed[i].value.tag = "Ok" =>
             /\ dispensed[i].value.val <= headsServed
             /\ dispensed[i].value.val =
                   Cardinality({j \in 1..i : dispensed[j].value.tag = "Ok"})

\* two requesters were sent the first and the second nonce, in their order of
\* arrival
TwoQueuedBothServed ==
    /\ Len(dispensed) = 2
    /\ dispensed[1].value = Ok(1) /\ dispensed[2].value = Ok(2)
    /\ dispensed[1].to = arrivals[1] /\ dispensed[2].to = arrivals[2]

\* ------------------------------------------------------------------------
\* C20: what a get is about to return is a value a key-value map may return
\* for that key: the value of the most recent put on the key that had returned
\* when the get was called (None if there was none), or the value of a put on the
\* key that overlaps the get or overlapped that put; puts on other keys never
\* show. The map holds, for every key, such a value; and a put always returns.
\* ------------------------------------------------------------------------
ActsAsMap ==
    /\ \A h \in Handles :
          handles[h].pc = "get_return" => handles[h].result \in window[h]
    /\ \A x \in DataHolders : persist_inner[x] \in current[x]
    /\ \A x \in DataHolders :
          (PutsInProgress(x) = {} /\ None \in current[x]) => current[x] = {None}

\* a get returns the value of the one put on its key, after a put on the other key
GetReturnsThePut ==
    \E h \in Handles :
       /\ handles[h].pc = "get_return"
       /\ handles[h].holder = convert("PrivateKey", <<107, 101, 121>>)
       /\ handles[h].result = Some(<<0, 0, 0, 0>>)
       /\ window[h] = {Some(<<0, 0, 0, 0>>)}
       /\ persist_inner[convert("PrivateKey", <<101, 109, 112, 116, 121>>)] = Some(<<1>>)


\* ------------------------------------------------------------------------
\* C21: the DirectoryBuilder moves only NeedsServer -> NeedsEndpoint -> Finished
\* and is then consumed by build; a Finished builder, and a NeedsEndpoint one,
\* holds a server builder; the directory is requested and a server constructed
\* only by a step that leaves Finished; and when the server builder held in
\* Finished has no connector that step returns NoConnector, requests nothing
\* and constructs no server.
\* ------------------------------------------------------------------------
BuilderHoldsServerBuilder ==
    /\ state \in {"NeedsServer", "NeedsEndpoint", "Finished", "Moved"}
    /\ state \in {"NeedsEndpoint", "Finished"} => builder.tag = "Some"
    /\ state \in {"NeedsServer", "NeedsEndpoint", "Finished"} => server = None /\ directoryGets = 0
    /\ server # None => state = "Moved"

BuilderStep ==
    /\ state' # state =>
          <<state, state'>> \in {<<"NeedsServer", "NeedsEndpoint">>, <<"NeedsEndpoint", "Finished">>,
                                 <<"Finished", "Moved">>}
    /\ (server' # server \/ directoryGets' # directoryGets) => state = "Finished" /\ state' = "Moved"
    /\ (state = "Finished" /\ state' = "Moved" /\ builder.val.connector = None) =>
          /\ pc' = "build_failed"
          /\ last'.op = "build" /\ last'.result = Err(<<"NoConnector", "">>)
          /\ server' = None
          /\ directoryGets' = 0

BuildOnlyWhenFinished == []BuilderHoldsServerBuilder /\ [][BuilderStep]_vars

\* build has returned NoConnector
BuildReturnedNoConnector ==
    /\ pc = "build_failed" /\ state = "Moved"
    /\ last.op = "build" /\ last.result = Err(<<"NoConnector", "">>)


\* ------------------------------------------------------------------------
\* C22: a type string that names a registered ACME error, by its urn or by the
\* name the urn ends with, deserializes to the variant of that error; every
\* other string s deserializes to Other(s); and serializing what a string was
\* deserialized to gives the string back.
\* ------------------------------------------------------------------------
\* the ApiErrorType a type string stands for
NamedErrorType(s) ==
    IF \E v \in DOMAIN as_ref : s \in {as_ref[v], RegisteredUrn[v]}
       THEN [tag |-> CHOOSE v \in DOMAIN as_ref : s \in {as_ref[v], RegisteredUrn[v]}, val |-> ""]
       ELSE [tag |-> "Other", val |-> s]

ErrorTypeMapsToVariant ==
    (origin.type = "ApiErrorType" /\ origin.form = "json") =>
        /\ doc.form # "error"
        /\ doc.form = "value" => doc.val = NamedErrorType(origin.val.val)
        /\ doc.form = "json" => doc.val.val = origin.val.val

\* what does hold: the names without the urn prefix map to their variants, every
\* other string read without escapes to Other of itself, and what was
\* deserialized serializes to the string it came from
ErrorTypeMapsBareNames ==
    (origin.type = "ApiErrorType" /\ origin.form = "json") =>
        /\ doc.form = "error" => origin.val.escaped
        /\ doc.form = "value" =>
              doc.val = (IF \E v \in DOMAIN as_ref : as_ref[v] = origin.val.val
                            THEN [tag |-> CHOOSE v \in DOMAIN as_ref : as_ref[v] = origin.val.val,
                                  val |-> ""]
                            ELSE [tag |-> "Other", val |-> origin.val.val])
        /\ doc.form = "json" => doc.val.val = origin.val.val /\ (doc.val.escaped => doc = origin)

\* ------------------------------------------------------------------------
\* C23: a value of Uri, ApiChallengeType or ApiOrder that is serialized and
\* deserialized again is deserialized without error to an equal value; DNS, TLS
\* and HTTP are written as "dns-01", "tls-alpn-01" and "http-01", and every other
\* string is rejected as a challenge type.
\* ------------------------------------------------------------------------
DtoRoundTrip ==
    /\ origin.form = "value" =>
          /\ doc.form # "error"
          /\ doc.form = "value" =>
                IF origin.type = "Uri" THEN to_string(doc.val) = to_string(origin.val)
                ELSE doc.val = origin.val
    /\ (origin.type = "ApiChallengeType" /\ origin.form = "value" /\ doc.form = "json") =>
          doc.val.val = (CASE origin.val = "DNS" -> "dns-01"
                           [] origin.val = "TLS" -> "tls-alpn-01"
                           [] origin.val = "HTTP" -> "http-01")
    /\ (origin.type = "ApiChallengeType" /\ origin.form = "json") =>
          IF origin.val.val \in {"dns-01", "tls-alpn-01", "http-01"}
             THEN doc.form # "error" ELSE doc.form # "value"

\* what does hold: the round trip of every value but an ApiOrder without expires
DtoRoundTripButExpires ==
    /\ (origin.form = "value" /\ ~(origin.type = "ApiOrder" /\ origin.val.expires = None)) =>
          /\ doc.form # "error"
          /\ doc.form = "value" =>
                IF origin.type = "Uri" THEN to_string(doc.val) = to_string(origin.val)
                ELSE doc.val = origin.val
    /\ (origin.form = "value" /\ origin.type = "ApiOrder" /\ origin.val.expires = None) =>
          /\ doc.form = "value" => doc = origin
          /\ doc.form = "json" => "expires" \notin DOMAIN doc.val.val
          /\ doc.form = "error" => doc.val = <<"missing field", "expires">>


\* ------------------------------------------------------------------------
\* C24: export_public_key succeeds exactly on a raw key of 97 bytes whose first
\* byte is 4; another length gives InvalidPublicKeyLenght, another first byte
\* of a 97-byte key WrongCompressionFormat with that byte; on success x and y
\* are 64 characters of the url-safe alphabet each, which decode to the bytes
\* 1..48 and 49..96 of the raw key (counted from 0).
\* ------------------------------------------------------------------------
\* the 6-bit value of a character of the url-safe alphabet, 64 for any other
Base64Value(c) ==
    IF c \in 65..90 THEN c - 65
    ELSE IF c \in 97..122 THEN c - 97 + 26
    ELSE IF c \in 48..57 THEN c - 48 + 52
    ELSE IF c = 45 THEN 62
    ELSE IF c = 95 THEN 63
    ELSE 64

\* the bytes that characters without padding stand for
Base64Decode(chars) ==
    [k \in 1..((3 * Len(chars)) \div 4) |->
        LET g == 4 * ((k - 1) \div 3)
            v(i) == IF g + i <= Len(chars) THEN Base64Value(chars[g + i]) ELSE 0
        IN CASE (k - 1) % 3 = 0 -> v(1) * 4 + v(2) \div 16
             [] (k - 1) % 3 = 1 -> (v(2) % 16) * 16 + v(3) \div 4
             [] (k - 1) % 3 = 2 -> (v(3) % 4) * 64 + v(4)]

PublicKeyExport ==
    (origin.type = "RingPublicKey" /\ doc.form # "raw") =>
        LET public == origin.val
        IN /\ doc.form = "jwk" <=> (Len(public) = 97 /\ public[1] = 4)
           /\ Len(public) # 97 => doc.val = <<"InvalidPublicKeyLenght", Len(public)>>
           /\ (Len(public) = 97 /\ public[1] # 4) =>
                 doc.val = <<"WrongCompressionFormat", public[1]>>
           /\ doc.form = "jwk" =>
                 /\ Len(doc.val[1]) = 64 /\ Len(doc.val[2]) = 64
                 /\ \A i \in 1..64 : Base64Value(doc.val[1][i]) < 64 /\ Base64Value(doc.val[2][i]) < 64
                 /\ Base64Decode(doc.val[1]) = SubSeq(public, 2, 49)
                 /\ Base64Decode(doc.val[2]) = SubSeq(public, 50, 97)

\* a key was exported
PublicKeyExported == origin.type = "RingPublicKey" /\ doc.form = "jwk"

\* a key of 97 bytes was refused for its first byte
PublicKeyRefusedForFormat ==
    /\ origin.type = "RingPublicKey" /\ doc.form = "error"
    /\ doc.val[1] = "WrongCompressionFormat"


\* ------------------------------------------------------------------------
\* C25: the protected header of every signed request, decoded from base64, is a
\* JSON object of exactly four members in the order alg, nonce, url, and then
\* jwk or kid.  (As stated, with jwk or kid before url, it does not hold.)
\* ------------------------------------------------------------------------
\* the JSON text the protected field of the request in flight stands for
HeaderText == Base64Decode(sent.request.protected)

\* the members of the header of the request in flight, by name
HeaderMember ==
    [alg |-> <<<<97, 108, 103>>, JsonString(sent.protected.alg)>>,
     nonce |-> <<<<110, 111, 110, 99, 101>>, JsonString(sent.protected.nonce)>>,
     url |-> <<<<117, 114, 108>>, JsonString(sent.protected.url)>>,
     key |-> IF sent.protected.jwk.tag = "JWK"
                THEN <<<<106, 119, 107>>, SerializeRingPublicKey(sent.protected.jwk.val)>>
                ELSE <<<<107, 105, 100>>, JsonString(sent.protected.jwk.val)>>]

PostUri ==
    CASE sent.op = "new_account" -> server.val.directory.new_account
      [] sent.op = "new_order" -> server.val.directory.new_order
      [] sent.op = "account_update" -> accounts[sent.target].kid
      [] sent.op = "order_update" -> orders[sent.target].location
      [] sent.op = "finalize" /\ sent.stage = 1 -> orders[sent.target].inner.finalize
      [] sent.op = "finalize" /\ sent.stage = 2 -> orders[sent.target].inner.certificate.val
      [] sent.op = "authorizations" -> orders[sent.target].inner.authorizations[sent.stage]
      [] sent.op = "authorization_update" -> authzs[sent.target].location
      [] sent.op = "validate" ->
            authzs[sent.target].inner.challenges[http_challenge(authzs[sent.target])].url

\* pattern is somewhere in text
Occurs(pattern, text) ==
    \E i \in 1..(Len(text) - Len(pattern) + 1) : SubSeq(text, i, i + Len(pattern) - 1) = pattern

ProtectedNamesUrlAndOneKey ==
    InFlight =>
        /\ sent.protected.alg = AlgES384
        /\ sent.protected.nonce = NonceStr(issued)
        /\ sent.protected.url = PostUri /\ sent.url = PostUri
        /\ task.kid = None <=> sent.op = "new_account"
        /\ IF task.kid = None
              THEN /\ sent.protected.jwk = [tag |-> "JWK", val |-> private_key(task.key).public_key]
                   /\ Occurs(<<34, 106, 119, 107, 34, 58>>, HeaderText)
                   /\ ~Occurs(<<34, 107, 105, 100, 34, 58>>, HeaderText)
              ELSE /\ sent.protected.jwk = [tag |-> "KID", val |-> task.kid.val]
                   /\ Occurs(<<34, 107, 105, 100, 34, 58>>, HeaderText)
                   /\ ~Occurs(<<34, 106, 119, 107, 34, 58>>, HeaderText)
        /\ Occurs(<<34, 97, 108, 103, 34, 58>>, HeaderText)
        /\ Occurs(<<34, 110, 111, 110, 99, 101, 34, 58>>, HeaderText)
        /\ Occurs(<<34, 117, 114, 108, 34, 58>> \o JsonString(PostUri), HeaderText)

\* the download of the certificate is in flight, its header naming the
\* certificate URI of the finalized order
DownloadHeaderNamesCertificate ==
    /\ InFlight /\ sent.op = "finalize" /\ sent.stage = 2
    /\ sent.protected.url = CertificateUri
    /\ sent.protected.jwk.tag = "KID"


\* ------------------------------------------------------------------------
\* C27: http_challenge of an authorization is None exactly when no challenge of
\* its list has type http-01, and otherwise the http-01 challenge no other
\* http-01 challenge of the list comes before; calling it (as validate's caller
\* does) leaves the authorization as it was.
\* ------------------------------------------------------------------------
HttpChallengeIsFirstHttp01 ==
    \A z \in DOMAIN authzs :
        LET ch == authzs[z].inner.challenges
            found == http_challenge(authzs[z])
        IN /\ found \in 0..Len(ch)
           /\ found = 0 <=> \A i \in 1..Len(ch) : ch[i].type_field # "HTTP"
           /\ found # 0 =>
                 /\ ch[found].type_field = "HTTP"
                 /\ ch[found].type_field \notin {"DNS", "TLS"}
                 /\ \A i \in 1..(found - 1) : ch[i].type_field # "HTTP"

HttpChallengeReadsOnly ==
    \A z \in DOMAIN authzs : validate_begin(z) => authzs' = authzs

HttpChallengeFirst == []HttpChallengeIsFirstHttp01 /\ [][HttpChallengeReadsOnly]_vars

\* validate is in flight for the first of two http-01 challenges that follow a
\* dns-01 challenge
ValidateSentForFirstOfTwo ==
    /\ InFlight /\ sent.op = "validate"
    /\ Len(authzs[sent.target].inner.challenges) = 3
    /\ authzs[sent.target].inner.challenges[3].type_field = "HTTP"
    /\ http_challenge(authzs[sent.target]) = 2
    /\ sent.url = ChallengeUrl

\* an authorization with a dns-01 and a tls-alpn-01 challenge only has none
NoHttpChallengeAmongDnsAndTls ==
    \E z \in DOMAIN authzs :
        /\ Len(authzs[z].inner.challenges) = 2
        /\ http_challenge(authzs[z]) = 0


\* ------------------------------------------------------------------------
\* C28: the proof of an http-01 challenge is the challenge's token, a dot, and
\* the unpadded base64url of the 32-octet SHA-256 thumbprint of the JSON
\* {crv, kty, x, y} of the public key of the account the challenge's order
\* belongs to; computing it changes neither the challenge nor the account, so
\* every call for the same challenge returns the same string.
\* ------------------------------------------------------------------------
\* the JWK JSON of the key a newAccount request of the account carried
AccountJwk(a) ==
    <<123>> \o <<34, 99, 114, 118, 34, 58, 34, 80, 45, 51, 56, 52, 34, 44>>
            \o <<34, 107, 116, 121, 34, 58, 34, 69, 67, 34, 44>>
            \o <<34, 120, 34, 58>> \o JsonString(private_key(accounts[a].key_pair).public_key[1])
            \o <<44, 34, 121, 34, 58>> \o JsonString(private_key(accounts[a].key_pair).public_key[2])
            \o <<125>>

ProofOfAccountKey ==
    (pc = "returned" /\ last.op = "proof") =>
        LET z == last.target
            challenge == authzs[z].inner.challenges[http_challenge(authzs[z])]
            n == Len(challenge.token)
            text == last.result.val
        IN /\ last.result.tag = "Ok"
           /\ challenge.type_field = "HTTP"
           /\ Len(text) = n + 1 + 43
           /\ SubSeq(text, 1, n) = challenge.token
           /\ text[n + 1] = 46
           /\ Base64Decode(SubSeq(text, n + 2, Len(text)))
                 = thumbprint(AccountJwk(AccountOf("proof", z)))
           /\ \A i \in (n + 2)..Len(text) : text[i] # 61

ProofReadsOnly ==
    \A z \in DOMAIN authzs : proof(z) => UNCHANGED <<authzs, orders, accounts, keys, certKeys>>

ProofFromAccountKey == []ProofOfAccountKey /\ [][ProofReadsOnly]_vars

\* a proof was computed after finalize generated a key pair for the certificate
ProofAfterCertificateKey ==
    /\ pc = "returned" /\ last.op = "proof" /\ last.result.tag = "Ok"
    /\ certKeys # <<>>
    /\ keys > accounts[AccountOf("proof", last.target)].key_pair


\* ------------------------------------------------------------------------
\* C29: a new_order request carries the payload
\* {"identifiers":[{"type":"dns","value":domain}]} for the domain new_order was
\* given, the Order it returns keeps that domain for good, and the first request
\* of finalize goes to the finalize URI of the order as cached, with the payload
\* {"csr":text}, text being the unpadded base64url of a DER that names the
\* order's domain.
\* ------------------------------------------------------------------------
NewOrderNamesOneDnsIdentifier ==
    (InFlight /\ sent.op = "new_order") =>
        /\ task.domain \in Domains
        /\ sent.request.payload.tag = "Post"
        /\ Base64Decode(sent.request.payload.inner)
              = <<123, 34, 105, 100, 101, 110, 116, 105, 102, 105, 101, 114, 115, 34, 58, 91, 123, 34, 116, 121, 112, 101, 34, 58, 34, 100, 110, 115, 34, 44, 34, 118, 97, 108, 117, 101, 34, 58>>
                   \o JsonString(task.domain) \o <<125, 93, 125>>

FinalizeNamesOrderDomain ==
    (InFlight /\ sent.op = "finalize" /\ sent.stage = 1) =>
        LET order == orders[sent.target]
            json == Base64Decode(sent.request.payload.inner)
            csr == SubSeq(json, 9, Len(json) - 2)
            der == Base64Decode(csr)
            n == Len(order.domain)
        IN /\ sent.url = order.inner.finalize
           /\ sent.protected.url = order.inner.finalize
           /\ sent.request.payload.tag = "Post"
           /\ SubSeq(json, 1, 8) = <<123, 34, 99, 115, 114, 34, 58, 34>>
           /\ SubSeq(json, Len(json) - 1, Len(json)) = <<34, 125>>
           /\ \A i \in 1..Len(csr) : csr[i] \notin {34, 61, 43, 47}
           /\ der[1] = 48
           /\ SubSeq(der, 2, n + 1) = order.domain
           /\ der[n + 2] = 3

OrderKeepsDomain ==
    /\ \A o \in DOMAIN orders : o \in DOMAIN orders' /\ orders'[o].domain = orders[o].domain
    /\ Len(orders') > Len(orders) =>
          /\ sent.op = "new_order"
          /\ Len(orders') = Len(orders) + 1
          /\ orders'[Len(orders')].domain = task.domain

FinalizeCsrNamesOrderDomain ==
    /\ []NewOrderNamesOneDnsIdentifier
    /\ []FinalizeNamesOrderDomain
    /\ [][OrderKeepsDomain]_vars

\* the CSR for "y.org" is on its way to the finalize URI an update of the order
\* brought
FinalizeSentToUpdatedUri ==
    /\ InFlight /\ sent.op = "finalize" /\ sent.stage = 1
    /\ orders[sent.target].domain = <<121, 46, 111, 114, 103>>
    /\ sent.url = <<47, 102, 105, 110, 47, 50>>
    /\ orders[sent.target].inner.status = "valid"


\* ------------------------------------------------------------------------
\* C30: the payload new_account signs is
\* {"contact":["mailto:" + mail],"termsOfServiceAgreed":tos} for the mail and
\* the terms-of-service flag tos of its caller, whichever of true and false the
\* caller chooses, the request in flight carries that payload, and every
\* Account returned has the Location of its response as kid.
\* ------------------------------------------------------------------------
\* the JSON text of the newAccount payload for a mail and a flag
NewAccountJson(mail, tos) ==
    <<123, 34, 99, 111, 110, 116, 97, 99, 116, 34, 58, 91, 34, 109, 97, 105, 108, 116, 111, 58>> \o mail
        \o <<34, 93, 44, 34, 116, 101, 114, 109, 115, 79, 102, 83, 101, 114, 118, 105, 99, 101, 65, 103, 114, 101, 101, 100, 34, 58>>
        \o (IF tos THEN <<116, 114, 117, 101>> ELSE <<102, 97, 108, 115, 101>>) \o <<125>>

NewAccountRequestAndKid ==
    /\ (InFlight /\ sent.op = "new_account") =>
          /\ sent.request.payload.tag = "Post"
          /\ sent.request.payload.inner = task.payload.val
    /\ \A a \in DOMAIN accounts : accounts[a].kid = AccountUri(a)

NewAccountPayloadOfCaller ==
    \A mail \in Mails, tos \in BOOLEAN :
        new_account_begin(mail) =>
            Base64Decode(task'.payload.val) = NewAccountJson(mail, tos)

NewAccountFollowsCaller == []NewAccountRequestAndKid /\ [][NewAccountPayloadOfCaller]_vars

\* what holds: the payload carries the caller's mail and always true
NewAccountPayloadAgrees ==
    \A mail \in Mails :
        new_account_begin(mail) =>
            Base64Decode(task'.payload.val) = NewAccountJson(mail, TRUE)

NewAccountAlwaysAgrees == []NewAccountRequestAndKid /\ [][NewAccountPayloadAgrees]_vars

\* an Account for "c@d.e" has been returned
AccountReturnedWithKid ==
    /\ pc = "returned" /\ last.op = "new_account" /\ last.result.tag = "Ok"
    /\ accounts[last.result.val].kid = AccountUri(last.result.val)


\* ------------------------------------------------------------------------
\* C31: from the call of Account::update, Order::update or Authorization::update
\* to its return, the entity it is called on changes in one step only, the one
\* that returns Ok, and there only its cached body is replaced: kid, location,
\* key pair, domain and owner stay; a call that returns an error has changed
\* nothing of the entity, and no other account, order or authorization changes
\* (Order::update ends the borrows of the order's authorizations when called).
\* ------------------------------------------------------------------------
UpdateOps == {"account_update", "order_update", "authorization_update"}

\* the entities of a sequence after a step of update on entity target
UpdatedOnly(old, new, target, ok) ==
    /\ DOMAIN new = DOMAIN old
    /\ \A i \in DOMAIN old :
          IF ok /\ i = target
             THEN /\ new[i] = [old[i] EXCEPT !.inner = new[i].inner]
                  /\ \A f \in DOMAIN old[i] \ {"inner"} : new[i][f] = old[i][f]
             ELSE new[i] = old[i]

UpdateStep ==
    LET op == IF task.op \in UpdateOps THEN task.op ELSE task'.op
        target == IF task.op \in UpdateOps THEN task.target ELSE task'.target
        ends == task.op \in UpdateOps /\ pc' = "returned"
        ok == ends /\ last'.result.tag = "Ok"
    IN op \in UpdateOps =>
          /\ ends => /\ last'.op = op /\ last'.target = target
                     /\ ok => pc = "post"
          /\ UpdatedOnly(accounts, accounts', target, ok /\ op = "account_update")
          /\ UpdatedOnly(orders, orders', target, ok /\ op = "order_update")
          /\ IF op = "order_update" /\ task.op = "none"
                THEN authzs' = EndBorrows(target)
                ELSE UpdatedOnly(authzs, authzs', target, ok /\ op = "authorization_update")

FailedUpdateChangesNothing == [][UpdateStep]_vars

\* Authorization::update has returned the ApiError of the server, the
\* authorization it was called on still being held
AuthorizationUpdateFailed ==
    /\ pc = "returned" /\ last.op = "authorization_update"
    /\ last.result.tag = "Err" /\ last.result.val[1] = "ApiError"
    /\ last.target \in DOMAIN authzs
    /\ authzs[last.target].location \in {AuthzUris[1], AuthzUris[2]}


\* ------------------------------------------------------------------------
\* C32: when Order::finalize returns an error, the order is as it was when
\* finalize was called.
\* ------------------------------------------------------------------------
FinalizeFails == task.op = "finalize" /\ pc' = "returned" /\ last'.result.tag = "Err"

FailedFinalizeStep == FinalizeFails => orders'[task.target] = task.before.val

FailedFinalizeChangesNothing == [][FailedFinalizeStep]_vars

\* C32 as the code has it: an error of finalize that comes before the answer to
\* the finalize POST, or is that answer, leaves the order as it was at the call;
\* an error of the download step (its nonce or its POST) leaves the order with
\* the ApiOrder the finalize POST was answered with as cached state, location,
\* domain and account as they were; every other order is unchanged.
FinalizeErrorStep ==
    FinalizeFails =>
        LET before == task.before.val
            after == orders'[task.target]
        IN /\ task.before.tag = "Some"
           /\ DOMAIN orders' = DOMAIN orders
           /\ \A o \in DOMAIN orders : o # task.target => orders'[o] = orders[o]
           /\ after = orders[task.target]
           /\ after = [before EXCEPT !.inner = after.inner]
           /\ IF task.stage = 1
                 THEN after = before
                 ELSE /\ task.stage = 2
                      /\ [tag |-> "ApiOrder", val |-> after.inner] \in OrderBodies
                      /\ after.inner.certificate = Some(task.url)

FailedFinalizeKeepsAnswer == [][FinalizeErrorStep]_vars

\* finalize has returned the error of the download POST, the order holding the
\* ApiOrder, valid and with certificate, that the finalize POST was answered with
DownloadFailedOnReplacedOrder ==
    /\ pc = "returned" /\ last.op = "finalize" /\ last.posts = 2
    /\ last.result = Err(<<"ApiError", "malformed">>)
    /\ orders[last.target].inner.status = "valid"
    /\ orders[last.target].inner.certificate.tag = "Some"


\* ------------------------------------------------------------------------
\* C33: the k-th request of Order::authorizations goes to the k-th authorization
\* URI of the order, as a POST-as-GET under the nonce fetched for it, after the
\* k-1 URIs before it were answered with an authorization each; the call
\* returns Ok with one Authorization per URI, in the order of the URIs and each
\* with its URI as location, or it returns the first error, without a list and
\* without a request for any later URI.
\* ------------------------------------------------------------------------
\* the authorizations fetched so far are those of the first URIs, in their order
FetchedInOrder(list, o, n) ==
    /\ Len(list) = n
    /\ \A i \in 1..n :
          /\ list[i].location = orders[o].inner.authorizations[i]
          /\ list[i].order = o
          /\ list[i].inner \in AuthorizationBodies

AuthorizationsOneAtATime ==
    task.op = "authorizations" =>
        LET uris == orders[task.target].inner.authorizations
        IN /\ task.stage \in 1..Len(uris)
           /\ task.url = uris[task.stage]
           /\ FetchedInOrder(task.acc, task.target, task.stage - 1)
           /\ task.posts = (IF InFlight THEN task.stage ELSE task.stage - 1)
           /\ InFlight =>
                 /\ sent.url = uris[task.stage] /\ sent.protected.url = uris[task.stage]
                 /\ sent.request.payload.tag = "Get"
                 /\ PayloadSerialize(sent.request.payload) = <<>>
                 /\ sent.protected.nonce = NonceStr(issued)
                 /\ \A i \in 1..(Len(usedNonces) - 1) : usedNonces[i] # sent.protected.nonce

AuthorizationsStep ==
    task.op = "authorizations" =>
        LET uris == orders[task.target].inner.authorizations
        IN /\ task'.op = "authorizations" =>
                 /\ task'.target = task.target
                 /\ task'.stage # task.stage => (pc = "post" /\ task'.stage = task.stage + 1)
           /\ pc' = "returned" =>
                 /\ last'.op = "authorizations"
                 /\ last'.posts <= task.stage
                 /\ IF last'.result.tag = "Ok"
                       THEN /\ pc = "post" /\ task.stage = Len(uris)
                            /\ last'.result.val = Len(uris)
                            /\ last'.posts = Len(uris)
                            /\ orders' = orders
                            /\ FetchedInOrder(authzs', task.target, Len(uris))
                            /\ SubSeq(authzs', 1, Len(task.acc)) = task.acc
                       ELSE authzs' = authzs

AuthorizationsAllOrFirstError == []AuthorizationsOneAtATime /\ [][AuthorizationsStep]_vars

\* authorizations has returned the error the first URI was answered with: one
\* request was made
AuthorizationsFailedOnFirstUri ==
    /\ pc = "returned" /\ last.op = "authorizations"
    /\ last.result = Err(<<"ApiError", "malformed">>)
    /\ last.posts = 1

\* authorizations has returned both authorizations of the order
AuthorizationsReturnedAll ==
    /\ pc = "returned" /\ last.op = "authorizations" /\ last.result = Ok(2)
    /\ authzs[1].location = AuthzUris[1] /\ authzs[2].location = AuthzUris[2]


\* ------------------------------------------------------------------------
\* C34: the error of a failed fetch reaches a requester as that error, and no
\* requester is told BackgroundClosed while the pool exists; the errors
\* delivered, with the one waiting in the slot, never outnumber the fetches
\* that failed; a requester is dequeued only with a result in the slot (the
\* `continue` branch is never taken); the step that dequeues with an error in
\* the slot hands it to the requester dequeued, if it still waits, and to
\* nobody else; and the task never goes from the loop head to the queue with an
\* error in the slot: it fetches first.
\* ------------------------------------------------------------------------
ErrorsDelivered ==
    Cardinality({i \in DOMAIN dispensed : dispensed[i].value.tag = "Err"})

FetchErrorDelivery ==
    /\ \A i \in DOMAIN dispensed :
          dispensed[i].value.tag = "Err" => dispensed[i].value.val \in FetchErrors
    /\ \A c \in Callers :
          /\ callers[c].pc # "orphaned"
          /\ callers[c].slot.tag = "Some" /\ callers[c].slot.val.tag = "Err"
                => callers[c].slot.val.val \in FetchErrors
    /\ taskPc = "recv" => nonce_cache.tag = "Some"
    /\ taskPc \in {"loop", "fetching"} =>
          ErrorsDelivered + (IF nonce_cache.tag = "Some" /\ nonce_cache.val.tag = "Err" THEN 1 ELSE 0)
             <= headsFailed
    /\ (taskPc = "recv" /\ nonce_cache.val.tag = "Err") => ErrorsDelivered < headsFailed

FetchErrorStep ==
    /\ (taskPc = "recv" /\ taskPc' = "loop" /\ nonce_cache.val.tag = "Err") =>
          LET c == Head(receiver)
          IN /\ receiver' = Tail(receiver)
             /\ \A d \in Callers : d # c => callers'[d] = callers[d]
             /\ IF callers[c].pc = "waiting"
                   THEN /\ callers'[c] = [pc |-> "ready", slot |-> Some(nonce_cache.val)]
                        /\ dispensed' = Append(dispensed, [to |-> c, value |-> nonce_cache.val])
                        /\ nonce_cache' = None
                   ELSE /\ callers'[c] = callers[c]
                        /\ dispensed' = dispensed
    /\ (taskPc = "loop" /\ taskPc' # "loop") =>
          IF nonce_cache.tag = "Some" /\ nonce_cache.val.tag = "Ok"
             THEN taskPc' = "recv" /\ nonce_cache' = nonce_cache /\ headsSent' = headsSent
             ELSE taskPc' = "fetching" /\ nonce_cache' = None /\ headsSent' = headsSent + 1
    /\ taskPc' = "recv" =>
          \/ taskPc = "recv" /\ nonce_cache' = nonce_cache
          \/ taskPc = "fetching"
          \/ taskPc = "loop" /\ nonce_cache'.val.tag = "Ok"

GetNonceReturns ==
    \A c \in Callers :
        (callers[c].pc \in {"sending", "waiting", "ready", "orphaned"})
            ~> (callers[c].pc \in {"done", "cancelled"})

\* the last requester to arrive found the channel full behind a request whose
\* requester cancelled, and has got the first nonce all the same
ServedAfterFullChannel ==
    /\ capacity = MaxPending
    /\ Len(arrivals) = MaxPending + 1
    /\ callers[arrivals[1]].pc = "cancelled"
    /\ callers[arrivals[MaxPending + 1]].pc = "done"
    /\ callers[arrivals[MaxPending + 1]].slot = Some(Ok(1))
    /\ headsSent = 1


\* ------------------------------------------------------------------------
\* C36: once the NoncePool has been dropped the background task eventually
\* stops, having started at most one HEAD request after the drop, and starts
\* none once it has stopped; and a get_nonce call in progress or made while the
\* task is stopped returns BackgroundClosed, or is cancelled.
\* ------------------------------------------------------------------------
TaskStopsAfterDrop == ~poolAlive ~> taskPc = "stopped"

OneFetchAfterDrop == atDrop.tag = "Some" => headsSent <= atDrop.val.heads + 1

NoFetchOnceStopped == taskPc = "stopped" => (taskPc' = "stopped" /\ headsSent' = headsSent)

ClosedToRequesters ==
    \A c \in Callers :
        (taskPc = "stopped" /\ callers[c].pc \in {"sending", "waiting", "orphaned"})
            ~> \/ callers[c].pc = "cancelled"
               \/ callers[c].pc = "done" /\ callers[c].slot = Some(Err("BackgroundClosed"))

PoolShutdown ==
    /\ TaskStopsAfterDrop
    /\ []OneFetchAfterDrop
    /\ [][NoFetchOnceStopped]_vars
    /\ ClosedToRequesters

\* C36 as the code has it: the HEAD requests started after the drop are at most
\* one more than the requests that were still queued at the drop (left there by
\* requesters that cancelled), and at most one when none was queued.
FetchesAfterDrop ==
    atDrop.tag = "Some" =>
        /\ headsSent <= atDrop.val.heads + atDrop.val.queued + 1
        /\ headsSent + Len(receiver) <= atDrop.val.heads + atDrop.val.queued + 1
        /\ atDrop.val.queued <= capacity

PoolShutdownPerQueued ==
    /\ TaskStopsAfterDrop
    /\ []FetchesAfterDrop
    /\ [][NoFetchOnceStopped]_vars
    /\ ClosedToRequesters

\* the task has stopped after two HEAD requests started after the drop, the
\* first of them failed, one cancelled request having been queued
StoppedAfterTwoFetches ==
    /\ taskPc = "stopped" /\ ~poolAlive
    /\ atDrop.val.queued = 1
    /\ headsSent = atDrop.val.heads + 2
    /\ headsFailed >= 1

\* a requester was told BackgroundClosed by a pool whose task the runtime stopped
BackgroundClosedReturned ==
    /\ poolAlive /\ taskPc = "stopped"
    /\ \E c \in Callers :
          callers[c].pc = "done" /\ callers[c].slot = Some(Err("BackgroundClosed"))

\* ------------------------------------------------------------------------
\* C37: while a POST of get_account or get_order is in flight, every 2xx response
\* without Location whose body parses makes the call return the body; while a
\* POST of new_account, get_account, new_order or get_order is in flight, every
\* 2xx response whose Location is no text or no URI makes the call return
\* InvalidHeader with that value, and every non-2xx response with an ApiError body
\* makes it return that ApiError whatever its Location header is.
\* ------------------------------------------------------------------------
HyperCall(op, res) ==
    CASE op = "new_account" -> new_account(res)
      [] op = "account_update" -> get_account(res)
      [] op = "new_order" -> new_order(res)
      [] OTHER -> get_order(res)

BadLocation(res) ==
    /\ res.location.tag = "Some"
    /\ ~HeaderToStrOk(res.location.val) \/ ~UriTryFromOk(res.location.val)

LocationHandling ==
    (InFlight /\ sent.op \in HyperOps) =>
        \A res \in ResponsesTo(sent.op) :
           LET r == HyperCall(sent.op, res)
           IN /\ (/\ sent.op \in {"account_update", "order_update"}
                  /\ NoLocation(res)
                  /\ res.body.tag = ExpectedBody(sent.op)) => r = Ok(res.body.val)
              /\ (IsSuccess(res.status) /\ BadLocation(res))
                    => r = Err(<<"InvalidHeader", "Some", res.location.val>>)
              /\ (~IsSuccess(res.status) /\ res.body.tag = "ApiError")
                    => r = Err(<<"ApiError", res.body.val>>)

\* Order::update returned InvalidHeader with the octets of the Location header
OrderUpdateInvalidLocation ==
    /\ pc = "returned" /\ last.op = "order_update"
    /\ last.result = Err(<<"InvalidHeader", "Some", NotUtf8>>)

\* ------------------------------------------------------------------------
\* C38: once set_kid has been called on a key pair, the key pair serializes as
\* exactly the kid of the last call, whatever was written was that string and
\* never the JWK struct, and the front of data is still the length octet and the
\* PKCS#8 document the pair was made from.
\* ------------------------------------------------------------------------
KidSet == doc.type = "RingKeyPair" /\ doc.form = "keypair" /\ doc.val.kids # <<>>

LastKid == doc.val.kids[Len(doc.val.kids)]

PkcsPrefixKept ==
    /\ SubSeq(doc.val.data, 1, doc.val.data[1] + 1)
          = <<Len(doc.val.pair.pkcs8)>> \o doc.val.pair.pkcs8
    /\ SubSeq(doc.val.data, 1, doc.val.data[1] + 1) = SubSeq(origin.val, 1, origin.val[1] + 1)

SetKidReplaces ==
    KidSet =>
        /\ SerializeRingKeyPair(doc.val) = [tag |-> "str", val |-> LastKid]
        /\ doc.val.out \in {None, Some([tag |-> "str", val |-> LastKid])}
        /\ PkcsPrefixKept

\* what holds: the last kid replaces the one before and the prefix is kept; a
\* key pair whose last kid is the empty string serializes as the struct again
SetKidReplacesUnlessEmpty ==
    KidSet =>
        /\ doc.val.data = SubSeq(origin.val, 1, origin.val[1] + 1) \o LastKid
        /\ PkcsPrefixKept
        /\ LastKid # <<>> =>
              /\ SerializeRingKeyPair(doc.val) = [tag |-> "str", val |-> LastKid]
              /\ doc.val.out \in {None, Some([tag |-> "str", val |-> LastKid])}
        /\ LastKid = <<>> => SerializeRingKeyPair(doc.val).tag = "struct"

\* a kid was replaced by another one and the key pair was written as the second
SecondKidWritten ==
    /\ KidSet /\ Len(doc.val.kids) = 2
    /\ doc.val.kids[1] # <<>> /\ doc.val.kids[2] # <<>> /\ doc.val.kids[1] # doc.val.kids[2]
    /\ doc.val.out = Some([tag |-> "str", val |-> doc.val.kids[2]])

\* a key pair with a kid was given the empty kid and written as the struct
StructWrittenAfterKid ==
    /\ KidSet /\ Len(doc.val.kids) = 2
    /\ doc.val.kids[1] # <<>> /\ doc.val.kids[2] = <<>>
    /\ doc.val.out.tag = "Some" /\ doc.val.out.val.tag = "struct"

\* ------------------------------------------------------------------------
\* C39: a serialized request's protected field is the base64 of a JSON object
\* that has a nonce member exactly when the nonce type is Nonce, a kid member
\* exactly when the key type is Kid and a jwk member exactly when it is not, each
\* with the value of the request; its signature is the signer's output for the
\* protected and payload strings of the same serialized request; both strings
\* are url-safe base64 of what was serialized.
\* ------------------------------------------------------------------------
Member(name, value) == JsonString(name) \o <<58>> \o value

HasMember(name, json) == Occurs(JsonString(name) \o <<58>>, json)

RequestWritten == doc.type = "Request" /\ doc.form = "written"

RequestSerialization ==
    RequestWritten =>
        LET request == origin.val
            header == Base64Decode(doc.val.protected)
        IN /\ HasMember(<<110, 111, 110, 99, 101>>, header) <=> request.protected.nonce.tag = "Nonce"
           /\ request.protected.nonce.tag = "Nonce" =>
                 Occurs(Member(<<110, 111, 110, 99, 101>>, JsonString(request.protected.nonce.val)), header)
           /\ HasMember(<<107, 105, 100>>, header) <=> request.protected.key.tag = "Kid"
           /\ HasMember(<<106, 119, 107>>, header) <=> request.protected.key.tag # "Kid"
           /\ request.protected.key.tag = "Kid" =>
                 Occurs(Member(<<107, 105, 100>>, JsonString(request.protected.key.kid)), header)
           /\ Occurs(Member(<<117, 114, 108>>, JsonString(request.protected.url)), header)
           /\ Base64Decode(doc.val.payload) = request.payload
           /\ \A i \in 1..Len(doc.val.protected) : Base64Value(doc.val.protected[i]) < 64
           /\ doc.val.signature = SignerSign(request.signer, doc.val.protected, doc.val.payload)
           /\ \A sg \in {1, 2} :
                 sg # request.signer =>
                    doc.val.signature # SignerSign(sg, doc.val.protected, doc.val.payload)

\* a request with key type Kid and nonce type NoNonce was serialized
KidRequestWithoutNonceWritten ==
    /\ RequestWritten
    /\ origin.val.protected.key.tag = "Kid"
    /\ origin.val.protected.nonce.tag = "NoNonce"
    /\ ~HasMember(<<110, 111, 110, 99, 101>>, Base64Decode(doc.val.protected))

\* a request with key type Jwk and nonce type Nonce was serialized
JwkRequestWithNonceWritten ==
    /\ RequestWritten
    /\ origin.val.protected.key.tag = "Jwk"
    /\ origin.val.protected.nonce = [tag |-> "Nonce", val |-> <<110, 49>>]
    /\ HasMember(<<106, 119, 107>>, Base64Decode(doc.val.protected))

====
